---- MODULE Spec2Model ----
(***************************************************************************)
(* Model of the AWS License Manager sample scripts.  Every script is a     *)
(* sequential client of a remote service; the service is modelled as a     *)
(* scripted mock: a finite result set of pages, status answers chosen at   *)
(* the time of each status check, and an optional request that raises.     *)
(* One behaviour of the model is one run of one sample function (prog).    *)
(***************************************************************************)
EXTENDS Integers, Sequences, FiniteSets, TLC

VARIABLES
    prog,      \* the sample function that is running
    pc,        \* its control location
    svcMode,   \* how the mocked service selects the page it answers with
    pages,     \* the service's result set: a sequence of response pages
    failAt,    \* index of the remote call that raises (0: no call raises)
    taskStatus,\* per conversion task, the statuses the service has answered
    reported,  \* the statuses the service has reported for the identity provider
               \* that onboard() registered
    calls,     \* the remote requests issued so far, in order
    locals,    \* the local variables of the running function
    ret,       \* the function's outcome
    printed    \* what the function printed, as far as the claims need it

vars == <<prog, pc, svcMode, pages, failAt, taskStatus, reported, calls, locals, ret, printed>>

\* What a run is given and never changes.
env == <<prog, svcMode, pages, failAt>>

----------------------------------------------------------------------------
(* Bounds *)
MaxPages == 3      \* pages in the service's result set
MaxItems == 2      \* entries per page
MaxFail == 4       \* latest remote call that may raise
MaxCalls == 6      \* list requests explored in a loop that need not end
MaxPolls == 4      \* status checks explored in a run
MaxProviders == 2  \* identity providers in one listing
MaxLcPages == 2    \* pages of the license configuration listing
MaxReservations == 2 \* reservations on one page of describe_instances
MaxEc2Pages == 2   \* pages of the describe_instances listing

(* Python's None, used for an absent token *)
None == 0

----------------------------------------------------------------------------
(* Generic helpers *)

SeqsUpTo(S, n) == UNION {[1..k -> S] : k \in 0..n}

RECURSIVE Concat(_)
Concat(ss) == IF ss = <<>> THEN <<>> ELSE Head(ss) \o Concat(Tail(ss))

NumCalls(op) == Cardinality({i \in 1..Len(calls) : calls[i].op = op})

Pending == [kind |-> "pending", val |-> <<>>]
Returned(v) == [kind |-> "value", val |-> v]
ReturnedNone == [kind |-> "None", val |-> <<>>]
Raised == [kind |-> "raised", val |-> <<>>]

----------------------------------------------------------------------------
(* The mocked service *)

\* A response page: a dict that has the key NextToken iff tok is a token and
\* the list key iff c.has.
Page(key, c, tok) ==
    (IF tok # None THEN [NextToken |-> tok] ELSE <<>>)
    @@ (IF c.has THEN (key :> c.xs) ELSE <<>>)

ItemChoices(lists) ==
    {[has |-> FALSE, xs |-> <<>>]} \cup {[has |-> TRUE, xs |-> l] : l \in lists}

\* Result sets of K pages in which exactly the last page lacks NextToken;
\* the token of page i addresses page i+1.
PageSeqs(key, lists) ==
    UNION {{[i \in 1..K |-> Page(key, c[i], IF i < K THEN i + 1 ELSE None)] :
              c \in [1..K -> ItemChoices(lists)]} : K \in 1..MaxPages}

\* The same, where the choices C[i] of a page depend on its index i.
PageSeqsOf(key, C, maxPages) ==
    UNION {{[i \in 1..K |-> Page(key, c[i], IF i < K THEN i + 1 ELSE None)] :
              c \in {f \in [1..K -> UNION {C[p] : p \in 1..K}] :
                        \A i \in 1..K : f[i] \in C[i]}} : K \in 1..maxPages}

\* Sequences over S of length at most n that list no element twice.
ListsUpTo(S, n) ==
    {l \in SeqsUpTo(S, n) : \A i, j \in 1..Len(l) : i # j => l[i] # l[j]}

Modes == {"scripted", "byToken"}

\* The call about to be issued raises.
Raises == failAt = Len(calls) + 1

\* The page the service answers a list request with: the next response of
\* the script, or the page the request's token addresses.
Serve(op, tok) ==
    IF svcMode = "scripted"
    THEN pages[IF NumCalls(op) + 1 <= Len(pages) THEN NumCalls(op) + 1 ELSE Len(pages)]
    ELSE pages[IF tok = None THEN 1 ELSE tok]

Req(op, tok) == [op |-> op, NextToken |-> tok]

----------------------------------------------------------------------------
(* manage_license_server_endpoints.py *)

\* The n endpoints page p lists; every endpoint is listed once.
EndpointList(p, n) == [j \in 1..n |-> <<"endpoint", p, j>>]

EndpointChoices(p) == ItemChoices({EndpointList(p, n) : n \in 0..MaxItems})

Init_lse ==
    /\ prog = "generate_license_server_endpoints_report"
    /\ pc = "lse_loop"
    /\ svcMode \in Modes
    /\ pages \in PageSeqsOf("LicenseServerEndpoints", [p \in 1..MaxPages |-> EndpointChoices(p)], MaxPages)
    /\ failAt \in 0..MaxPages
    /\ taskStatus = <<>>
    /\ reported = {}
    /\ calls = <<>>
    /\ locals = [all_endpoints |-> <<>>, next_token |-> None, page_count |-> 1]
    /\ ret = Pending
    /\ printed = <<>>

\* all_endpoints after a page: all_endpoints.extend(endpoints) when the page
\* has the key LicenseServerEndpoints.
lse_extend_overwrites(all_endpoints, response) ==
    IF "LicenseServerEndpoints" \in DOMAIN response
    THEN response.LicenseServerEndpoints
    ELSE all_endpoints

lse_extend(all_endpoints, response) ==
    IF "LicenseServerEndpoints" \in DOMAIN response
    THEN all_endpoints \o response.LicenseServerEndpoints
    ELSE all_endpoints

\* except Exception: return []
lse_on_exception_partial(all_endpoints) == all_endpoints

lse_on_exception(all_endpoints) == <<>>

\* One iteration of the while loop of list_license_server_endpoints_paginated.
list_license_server_endpoints_paginated ==
    /\ pc = "lse_loop"
    /\ calls' = Append(calls, Req("list_license_server_endpoints", locals.next_token))
    /\ IF Raises
       THEN /\ ret' = Returned(lse_on_exception(locals.all_endpoints))
            /\ pc' = "lse_report"
            /\ UNCHANGED locals
       ELSE LET response == Serve("list_license_server_endpoints", locals.next_token)
                all == lse_extend(locals.all_endpoints, response)
            IN  IF "NextToken" \in DOMAIN response
                THEN /\ locals' = [all_endpoints |-> all,
                                   next_token |-> response.NextToken,
                                   page_count |-> locals.page_count + 1]
                     /\ UNCHANGED <<pc, ret>>
                ELSE /\ locals' = [locals EXCEPT !.all_endpoints = all]
                     /\ ret' = Returned(all)
                     /\ pc' = "lse_report"
    /\ UNCHANGED <<env, reported, taskStatus, printed>>

generate_license_server_endpoints_report ==
    /\ pc = "lse_report"
    /\ printed' = IF ret.val = <<>>
                  THEN <<"No license server endpoints found.">>
                  ELSE <<"Total License Server Endpoints", Len(ret.val)>>
    /\ pc' = "done"
    /\ UNCHANGED <<env, reported, taskStatus, calls, locals, ret>>

----------------------------------------------------------------------------
(* update_license_specifications_for_resource.py *)

\* An ARN as the tuple of its colon-separated fields.
Arn(account, resource) == <<"arn", "aws", "ec2", "us-east-1", account, resource>>

Accounts == <<"111111111111", "222222222222">>

\* The n resources page p of the inventory lists; every resource is listed once.
ResourceList(p, n) ==
    [j \in 1..n |-> [ResourceArn |-> Arn(Accounts[1 + (j % 2)], <<"instance", p, j>>)]]

InventoryChoices(p) == ItemChoices({ResourceList(p, n) : n \in 0..MaxItems})

InventoryPageSeqs == PageSeqsOf("ResourceInventoryList", [p \in 1..MaxPages |-> InventoryChoices(p)], MaxPages)

ResourceCall(op, arn) == [op |-> op, NextToken |-> None, ResourceArn |-> arn]

Init_ulsr ==
    /\ prog = "update_license_specifications_for_all_resources"
    /\ pc = "ulsr_start"
    /\ svcMode \in Modes
    /\ pages \in InventoryPageSeqs
    /\ failAt \in 0..MaxFail
    /\ taskStatus = <<>>
    /\ reported = {}
    /\ calls = <<>>
    /\ locals = [response |-> <<>>, idx |-> 0]
    /\ ret = Pending
    /\ printed = <<>>

\* response = lm_client.list_resource_inventory(MaxResults=20)
ulsr_list_resource_inventory ==
    /\ pc = "ulsr_start"
    /\ calls' = Append(calls, Req("list_resource_inventory", None))
    /\ IF Raises
       THEN /\ ret' = Raised /\ pc' = "done" /\ UNCHANGED locals
       ELSE /\ locals' = [response |-> Serve("list_resource_inventory", None), idx |-> 0]
            /\ pc' = "ulsr_for"
            /\ UNCHANGED ret
    /\ UNCHANGED <<env, reported, taskStatus, printed>>

\* The for loop has another resource of the current page to process.
ulsr_more_resources_skips_last(response, idx) ==
    /\ "ResourceInventoryList" \in DOMAIN response
    /\ idx + 1 < Len(response.ResourceInventoryList)

ulsr_more_resources(response, idx) ==
    /\ "ResourceInventoryList" \in DOMAIN response
    /\ idx < Len(response.ResourceInventoryList)

ulsr_update_license_specifications ==
    /\ pc = "ulsr_for"
    /\ ulsr_more_resources(locals.response, locals.idx)
    /\ calls' = Append(calls, ResourceCall("update_license_specifications_for_resource",
                          locals.response.ResourceInventoryList[locals.idx + 1].ResourceArn))
    /\ IF Raises
       THEN /\ ret' = Raised /\ pc' = "done"
       ELSE /\ pc' = "ulsr_list_specs" /\ UNCHANGED ret
    /\ UNCHANGED <<env, reported, taskStatus, locals, printed>>

ulsr_list_license_specifications ==
    /\ pc = "ulsr_list_specs"
    /\ calls' = Append(calls, ResourceCall("list_license_specifications_for_resource",
                          locals.response.ResourceInventoryList[locals.idx + 1].ResourceArn))
    /\ IF Raises
       THEN /\ ret' = Raised /\ pc' = "done" /\ UNCHANGED locals
       ELSE /\ pc' = "ulsr_for"
            /\ locals' = [locals EXCEPT !.idx = @ + 1]
            /\ UNCHANGED ret
    /\ UNCHANGED <<env, reported, taskStatus, printed>>

\* if "NextToken" in response
ulsr_has_next(response) == "NextToken" \in DOMAIN response

ulsr_next_page ==
    /\ pc = "ulsr_for"
    /\ ~ulsr_more_resources(locals.response, locals.idx)
    /\ IF ulsr_has_next(locals.response)
       THEN /\ calls' = Append(calls, Req("list_resource_inventory", locals.response.NextToken))
            /\ IF Raises
               THEN /\ ret' = Raised /\ pc' = "done" /\ UNCHANGED locals
               ELSE /\ locals' = [response |-> Serve("list_resource_inventory",
                                                      locals.response.NextToken),
                                  idx |-> 0]
                    /\ UNCHANGED <<pc, ret>>
       ELSE /\ ret' = Returned(locals.response)
            /\ pc' = "done"
            /\ UNCHANGED <<calls, locals>>
    /\ UNCHANGED <<env, reported, taskStatus, printed>>

----------------------------------------------------------------------------
(* linux_subscriptions_usage_metrics_sample.py *)

AlarmPageSeqs ==
    UNION {{[i \in 1..K |-> Page("MetricAlarms", [has |-> TRUE, xs |-> <<>>],
                                 IF i < K THEN i + 1 ELSE None)]} : K \in 1..MaxPages}

Init_dlsua ==
    /\ prog = "describe_linux_subscriptions_usage_alarms"
    /\ pc = "dlsua_start"
    /\ svcMode \in Modes
    /\ pages \in AlarmPageSeqs
    /\ failAt \in 0..MaxFail
    /\ taskStatus = <<>>
    /\ reported = {}
    /\ calls = <<>>
    /\ locals = [response |-> <<>>]
    /\ ret = Pending
    /\ printed = <<>>

\* response = cloudwatch.describe_alarms(AlarmNames = AlarmNames)
dlsua_describe_alarms ==
    /\ pc = "dlsua_start"
    /\ calls' = Append(calls, Req("describe_alarms", None))
    /\ IF Raises
       THEN /\ ret' = Raised /\ pc' = "done" /\ UNCHANGED locals
       ELSE /\ locals' = [response |-> Serve("describe_alarms", None)]
            /\ pc' = "dlsua_loop"
            /\ UNCHANGED ret
    /\ UNCHANGED <<env, reported, taskStatus, printed>>

dlsua_has_next_misspelt(response) == "nextToken" \in DOMAIN response

dlsua_has_next(response) == "NextToken" \in DOMAIN response

\* One iteration of the while loop.
dlsua_loop ==
    /\ pc = "dlsua_loop"
    /\ printed' = Append(printed, locals.response)
    /\ IF dlsua_has_next(locals.response)
       THEN /\ calls' = Append(calls, Req("describe_alarms", locals.response.NextToken))
            /\ IF Raises
               THEN /\ ret' = Raised /\ pc' = "done" /\ UNCHANGED locals
               ELSE /\ locals' = [response |-> Serve("describe_alarms", locals.response.NextToken)]
                    /\ UNCHANGED <<pc, ret>>
       ELSE /\ ret' = ReturnedNone
            /\ pc' = "done"
            /\ UNCHANGED <<calls, locals>>
    /\ UNCHANGED <<env, reported, taskStatus>>

----------------------------------------------------------------------------
(* list_identity_providers_sample.py: list_identity_providers_paginated *)

ProviderSummaries == {"idp1"}

Init_lipp ==
    /\ prog = "list_identity_providers_paginated"
    /\ pc = "lipp_start"
    /\ svcMode \in Modes
    /\ pages \in PageSeqs("IdentityProviderSummaries", SeqsUpTo(ProviderSummaries, 1))
    /\ failAt \in 0..MaxFail
    /\ taskStatus = <<>>
    /\ reported = {}
    /\ calls = <<>>
    /\ locals = [response |-> <<>>, page_count |-> 0]
    /\ ret = Pending
    /\ printed = <<>>

\* response = client.list_identity_providers(); page_count = 1
lipp_list_identity_providers ==
    /\ pc = "lipp_start"
    /\ calls' = Append(calls, Req("list_identity_providers", None))
    /\ IF Raises
       THEN /\ ret' = ReturnedNone /\ pc' = "done"
            /\ printed' = <<"Error in paginated listing">>
            /\ UNCHANGED locals
       ELSE /\ locals' = [response |-> Serve("list_identity_providers", None), page_count |-> 1]
            /\ pc' = "lipp_loop"
            /\ UNCHANGED <<ret, printed>>
    /\ UNCHANGED <<env, reported, taskStatus>>

lipp_has_next(response) == "NextToken" \in DOMAIN response

\* The provider summaries the loop body displays for a page.
lipp_display(response) ==
    IF "IdentityProviderSummaries" \in DOMAIN response
    THEN response.IdentityProviderSummaries ELSE <<>>

lipp_loop ==
    /\ pc = "lipp_loop"
    /\ IF lipp_has_next(locals.response)
       THEN /\ calls' = Append(calls, Req("list_identity_providers", locals.response.NextToken))
            /\ IF Raises
               THEN /\ ret' = ReturnedNone /\ pc' = "done"
                    /\ printed' = printed \o lipp_display(locals.response)
                                    \o <<"Error in paginated listing">>
                    /\ UNCHANGED locals
               ELSE /\ locals' = [response |-> Serve("list_identity_providers",
                                                      locals.response.NextToken),
                                  page_count |-> locals.page_count + 1]
                    /\ printed' = printed \o lipp_display(locals.response)
                    /\ UNCHANGED <<pc, ret>>
       ELSE /\ ret' = ReturnedNone
            /\ pc' = "done"
            /\ printed' = printed \o lipp_display(locals.response)
                            \o <<"Completed pagination", locals.page_count>>
            /\ UNCHANGED <<calls, locals>>
    /\ UNCHANGED <<env, reported, taskStatus>>

----------------------------------------------------------------------------
(* user_subscriptions_usage_metrics_sample.py: get_product_subscription_metrics *)

ProductUserSummaries ==
    { [Product |-> "VISUAL_STUDIO_PROFESSIONAL", Status |-> "SUBSCRIBED"],
      [Product |-> "OFFICE_PROFESSIONAL_PLUS", Status |-> "UNSUBSCRIBED"] }

\* The for loop over a page's summaries: per-product total and active counts.
RECURSIVE gpsm_count(_, _)
gpsm_count(products_summary, summaries) ==
    IF summaries = <<>> THEN products_summary
    ELSE LET s == Head(summaries)
             ps == IF s.Product \in DOMAIN products_summary
                   THEN products_summary
                   ELSE products_summary @@ (s.Product :> [total |-> 0, active |-> 0])
             upd == [ps EXCEPT ![s.Product] =
                       [total |-> @.total + 1,
                        active |-> IF s.Status = "SUBSCRIBED" THEN @.active + 1 ELSE @.active]]
         IN gpsm_count(upd, Tail(summaries))

gpsm_page(products_summary, response) ==
    IF "ProductUserSummaries" \in DOMAIN response
    THEN gpsm_count(products_summary, response.ProductUserSummaries)
    ELSE products_summary

Init_gpsm ==
    /\ prog = "get_product_subscription_metrics"
    /\ pc = "gpsm_start"
    /\ svcMode \in Modes
    /\ pages \in PageSeqs("ProductUserSummaries", SeqsUpTo(ProductUserSummaries, 1))
    /\ failAt \in 0..MaxFail
    /\ taskStatus = <<>>
    /\ reported = {}
    /\ calls = <<>>
    /\ locals = [response |-> <<>>, products_summary |-> <<>>, NextToken |-> None]
    /\ ret = Pending
    /\ printed = <<>>

\* response = client.list_product_subscriptions(**params)
gpsm_list_product_subscriptions ==
    /\ pc = "gpsm_start"
    /\ calls' = Append(calls, Req("list_product_subscriptions", None))
    /\ IF Raises
       THEN /\ ret' = ReturnedNone /\ pc' = "done" /\ UNCHANGED locals
       ELSE /\ locals' = [locals EXCEPT !.response = Serve("list_product_subscriptions", None)]
            /\ pc' = "gpsm_loop"
            /\ UNCHANGED ret
    /\ UNCHANGED <<env, reported, taskStatus, printed>>

gpsm_has_next(response) == "NextToken" \in DOMAIN response

gpsm_loop ==
    /\ pc = "gpsm_loop"
    /\ LET summary == gpsm_page(locals.products_summary, locals.response)
       IN  IF gpsm_has_next(locals.response)
           THEN /\ calls' = Append(calls, Req("list_product_subscriptions",
                                              locals.response.NextToken))
                /\ IF Raises
                   THEN /\ ret' = ReturnedNone /\ pc' = "done"
                        /\ locals' = [locals EXCEPT !.products_summary = summary,
                                                    !.NextToken = locals.response.NextToken]
                   ELSE /\ locals' = [response |-> Serve("list_product_subscriptions",
                                                          locals.response.NextToken),
                                      products_summary |-> summary,
                                      NextToken |-> locals.response.NextToken]
                        /\ UNCHANGED <<pc, ret>>
           ELSE /\ ret' = Returned(summary)
                /\ pc' = "done"
                /\ locals' = [locals EXCEPT !.products_summary = summary]
                /\ UNCHANGED calls
    /\ UNCHANGED <<env, reported, taskStatus, printed>>

----------------------------------------------------------------------------
(* list_linux_subscriptions_sample.py: list_linux_subscription_instances *)

InstancePageSeqs ==
    UNION {{[i \in 1..K |-> Page("Instances", [has |-> TRUE, xs |-> <<<<"page", i>>>>],
                                 IF i < K THEN i + 1 ELSE None)]} : K \in 1..MaxPages}

Init_llsi ==
    /\ prog = "list_linux_subscription_instances"
    /\ pc = "llsi_start"
    /\ svcMode \in Modes
    /\ pages \in InstancePageSeqs
    /\ failAt \in 0..MaxFail
    /\ taskStatus = <<>>
    /\ reported = {}
    /\ calls = <<>>
    /\ locals = [response |-> <<>>, next_token |-> None]
    /\ ret = Pending
    /\ printed = <<>>

\* response = client.list_linux_subscription_instances(Filters=[...])
llsi_list_instances ==
    /\ pc = "llsi_start"
    /\ calls' = Append(calls, Req("list_linux_subscription_instances", None))
    /\ IF Raises
       THEN /\ ret' = Raised /\ pc' = "done" /\ UNCHANGED locals
       ELSE /\ locals' = [locals EXCEPT
                            !.response = Serve("list_linux_subscription_instances", None)]
            /\ pc' = "llsi_loop"
            /\ UNCHANGED ret
    /\ UNCHANGED <<env, reported, taskStatus, printed>>

\* The NextToken argument of the request issued inside the loop: the request
\* is built from the filters only.
llsi_request_token(next_token) == None

llsi_loop ==
    /\ pc = "llsi_loop"
    /\ printed' = Append(printed, locals.response)
    /\ IF "NextToken" \in DOMAIN locals.response
       THEN /\ Len(calls) < MaxCalls
            /\ LET next_token == locals.response.NextToken
                   tok == llsi_request_token(next_token)
               IN /\ calls' = Append(calls, Req("list_linux_subscription_instances", tok))
                  /\ IF Raises
                     THEN /\ ret' = Raised /\ pc' = "done"
                          /\ locals' = [locals EXCEPT !.next_token = next_token]
                     ELSE /\ locals' = [response |->
                                           Serve("list_linux_subscription_instances", tok),
                                        next_token |-> next_token]
                          /\ UNCHANGED <<pc, ret>>
       ELSE /\ ret' = ReturnedNone
            /\ pc' = "done"
            /\ UNCHANGED <<calls, locals>>
    /\ UNCHANGED <<env, reported, taskStatus>>

----------------------------------------------------------------------------
(* list_identity_providers_sample.py: list_instances *)

InstanceSummaries ==
    { [InstanceId |-> "i-1", Products |-> <<"VISUAL_STUDIO_PROFESSIONAL">>],
      [InstanceId |-> "i-2", Products |-> <<"OFFICE_PROFESSIONAL_PLUS">>],
      [InstanceId |-> "i-3"] }

\* The default of the optional product argument (falsy).
NoProduct == ""

\* product in summary['Products']
InList(x, list) == \E k \in DOMAIN list : list[k] = x

\* if 'Products' in summary and product in summary['Products']
li_matches(summary, product) ==
    "Products" \in DOMAIN summary /\ InList(product, summary.Products)

\* filtered_summaries, built by the for loop
RECURSIVE li_filtered_summaries(_, _)
li_filtered_summaries(summaries, product) ==
    IF summaries = <<>> THEN <<>>
    ELSE (IF li_matches(Head(summaries), product) THEN <<Head(summaries)>> ELSE <<>>)
         \o li_filtered_summaries(Tail(summaries), product)

\* The two dicts after filtered_response = response.copy() and the assignment
\* of the filtered list to the copy.
li_filter_aliased(response, product) ==
    LET filtered == [response EXCEPT !.InstanceSummaries =
                        li_filtered_summaries(response.InstanceSummaries, product)]
    IN [response |-> filtered, filtered_response |-> filtered]

li_filter(response, product) ==
    [response |-> response,
     filtered_response |->
        [response EXCEPT !.InstanceSummaries =
            li_filtered_summaries(response.InstanceSummaries, product)]]

\* What one loop iteration prints, and the response it leaves.
li_page(response, product) ==
    IF product # NoProduct /\ "InstanceSummaries" \in DOMAIN response
    THEN LET f == li_filter(response, product)
         IN [response |-> f.response, shown |-> f.filtered_response]
    ELSE [response |-> response, shown |-> response]

MaxFilterPages == 2

InstanceSummaryChoices == ItemChoices(ListsUpTo(InstanceSummaries, MaxItems))

InstancesPageSeqs ==
    PageSeqsOf("InstanceSummaries", [p \in 1..MaxFilterPages |-> InstanceSummaryChoices],
               MaxFilterPages)

Init_li ==
    /\ prog = "list_instances"
    /\ pc = "li_start"
    /\ svcMode \in Modes
    /\ pages \in InstancesPageSeqs
    /\ failAt \in 0..MaxFilterPages
    /\ taskStatus = <<>>
    /\ reported = {}
    /\ calls = <<>>
    /\ \E product \in {NoProduct, "VISUAL_STUDIO_PROFESSIONAL"} :
          locals = [product |-> product, response |-> <<>>, NextToken |-> None]
    /\ ret = Pending
    /\ printed = <<>>

\* response = client.list_instances(**params)
li_list_instances ==
    /\ pc = "li_start"
    /\ calls' = Append(calls, Req("list_instances", None))
    /\ IF Raises
       THEN /\ ret' = ReturnedNone /\ pc' = "done" /\ UNCHANGED locals
       ELSE /\ locals' = [locals EXCEPT !.response = Serve("list_instances", None)]
            /\ pc' = "li_loop"
            /\ UNCHANGED ret
    /\ UNCHANGED <<env, reported, taskStatus, printed>>

li_loop ==
    /\ pc = "li_loop"
    /\ LET page == li_page(locals.response, locals.product)
           response == page.response
       IN /\ printed' = Append(printed, page.shown)
          /\ IF "NextToken" \in DOMAIN response
             THEN /\ calls' = Append(calls, Req("list_instances", response.NextToken))
                  /\ IF Raises
                     THEN /\ ret' = ReturnedNone /\ pc' = "done"
                          /\ locals' = [locals EXCEPT !.response = response,
                                                      !.NextToken = response.NextToken]
                     ELSE /\ locals' = [locals EXCEPT
                                          !.response = Serve("list_instances", response.NextToken),
                                          !.NextToken = response.NextToken]
                          /\ UNCHANGED <<pc, ret>>
             ELSE /\ ret' = Returned(response)
                  /\ pc' = "done"
                  /\ locals' = [locals EXCEPT !.response = response]
                  /\ UNCHANGED calls
    /\ UNCHANGED <<env, reported, taskStatus>>

----------------------------------------------------------------------------
(* license_switching_sample.py *)

Statuses == {"PENDING", "SUCCEEDED", "FAILED"}

\* The calls of a helper that the run gets to issue: all of them, or those up
\* to the one that raises.
Issued(reqs) ==
    IF failAt \in (Len(calls) + 1)..(Len(calls) + Len(reqs))
    THEN SubSeq(reqs, 1, failAt - Len(calls))
    ELSE reqs

RaisesWithin(reqs) == failAt \in (Len(calls) + 1)..(Len(calls) + Len(reqs))

\* get_client_using_assume_role: sts assume_role for the account's role
AssumeRole(account_id) ==
    [op |-> "assume_role", NextToken |-> None,
     RoleArn |-> <<"arn", "aws", "iam", "", account_id, "role/LicenseConversionRole">>]

\* The two remote calls of create_license_conversion_task
create_license_conversion_task(account_id, resource_arn, source, destination) ==
    << AssumeRole(account_id),
       [op |-> "create_license_conversion_task_for_resource", NextToken |-> None,
        ResourceArn |-> resource_arn,
        SourceLicenseContext |-> source, DestinationLicenseContext |-> destination] >>

\* The two remote calls of get_license_conversion_task_status
get_license_conversion_task(account_id, task_id) ==
    << AssumeRole(account_id),
       [op |-> "get_license_conversion_task", NextToken |-> None,
        LicenseConversionTaskId |-> task_id] >>

\* The value get_license_conversion_task_status returns for a status
get_license_conversion_task_status_succeeded_only(status) ==
    status = "SUCCEEDED"

get_license_conversion_task_status(status) ==
    (status = "SUCCEEDED") \/ (status = "FAILED")

\* resource_arn.split(':')[4]
account_of(resource_arn) == resource_arn[5]

\* list.remove(x): the list without the first element equal to x
RECURSIVE Remove(_, _)
Remove(list, x) ==
    IF list = <<>> THEN <<>>
    ELSE IF Head(list) = x THEN Tail(list)
    ELSE <<Head(list)>> \o Remove(Tail(list), x)

\* while len(pending_conversion_tasks) != 0
ls_tasks_pending_off_by_one(pending_conversion_tasks) == Len(pending_conversion_tasks) > 1

ls_tasks_pending(pending_conversion_tasks) == Len(pending_conversion_tasks) # 0

SourceContext(phase) == IF phase = "BYOL" THEN "RunInstances:0800" ELSE "RunInstances:0002"
DestinationContext(phase) == IF phase = "BYOL" THEN "RunInstances:0002" ELSE "RunInstances:0800"

ls_locals(phase) ==
    [phase |-> phase, response |-> <<>>, idx |-> 0,
     pending_conversion_tasks |-> <<>>, it |-> 0]

Init_ls ==
    /\ prog = "license_switching_sample.main"
    /\ pc = "ls_start"
    /\ svcMode = "byToken"
    /\ pages \in InventoryPageSeqs
    /\ failAt \in 0..MaxFail
    /\ taskStatus = <<>>
    /\ reported = {}
    /\ calls = <<>>
    /\ locals = ls_locals("BYOL")
    /\ ret = Pending
    /\ printed = <<>>

\* response = lm_client.list_resource_inventory(MaxResults=20)
ls_list_resource_inventory ==
    /\ pc = "ls_start"
    /\ calls' = Append(calls, Req("list_resource_inventory", None))
    /\ IF Raises
       THEN /\ ret' = Raised /\ pc' = "done" /\ UNCHANGED locals
       ELSE /\ locals' = [locals EXCEPT !.response = Serve("list_resource_inventory", None)]
            /\ pc' = "ls_for"
            /\ UNCHANGED ret
    /\ UNCHANGED <<env, reported, taskStatus, printed>>

ls_more_resources(response, idx) ==
    /\ "ResourceInventoryList" \in DOMAIN response
    /\ idx < Len(response.ResourceInventoryList)

\* One iteration of the for loop over the page's resources.
ls_create_task ==
    /\ pc = "ls_for"
    /\ ls_more_resources(locals.response, locals.idx)
    /\ LET resource_arn == locals.response.ResourceInventoryList[locals.idx + 1].ResourceArn
           account_id == account_of(resource_arn)
           reqs == create_license_conversion_task(account_id, resource_arn,
                        SourceContext(locals.phase), DestinationContext(locals.phase))
           task_id == Len(taskStatus) + 1
       IN /\ calls' = calls \o Issued(reqs)
          /\ IF RaisesWithin(reqs)
             THEN /\ ret' = Raised /\ pc' = "done"
                  /\ UNCHANGED <<locals, taskStatus>>
             ELSE /\ taskStatus' = Append(taskStatus, <<>>)
                  /\ locals' = [locals EXCEPT
                        !.idx = @ + 1,
                        !.pending_conversion_tasks = Append(@, <<account_id, task_id>>)]
                  /\ UNCHANGED <<pc, ret>>
    /\ UNCHANGED <<env, reported, printed>>

ls_next_page ==
    /\ pc = "ls_for"
    /\ ~ls_more_resources(locals.response, locals.idx)
    /\ IF "NextToken" \in DOMAIN locals.response
       THEN /\ calls' = Append(calls, Req("list_resource_inventory", locals.response.NextToken))
            /\ IF Raises
               THEN /\ ret' = Raised /\ pc' = "done" /\ UNCHANGED locals
               ELSE /\ locals' = [locals EXCEPT
                                    !.response = Serve("list_resource_inventory",
                                                       locals.response.NextToken),
                                    !.idx = 0]
                    /\ UNCHANGED <<pc, ret>>
       ELSE /\ pc' = "ls_while"
            /\ UNCHANGED <<calls, locals, ret>>
    /\ UNCHANGED <<env, reported, taskStatus, printed>>

\* The while test, reached from the end of the pagination loop and whenever
\* the for loop over the pending tasks is exhausted; when it fails the
\* function returns and main goes on.
ls_while ==
    /\ \/ pc = "ls_while"
       \/ pc = "ls_for_tasks" /\ locals.it >= Len(locals.pending_conversion_tasks)
    /\ IF ls_tasks_pending(locals.pending_conversion_tasks)
       THEN /\ locals' = [locals EXCEPT !.it = 0]
            /\ pc' = "ls_for_tasks"
            /\ UNCHANGED ret
       ELSE IF locals.phase = "BYOL"
            THEN /\ locals' = ls_locals("LI")
                 /\ pc' = "ls_start"
                 /\ UNCHANGED ret
            ELSE /\ ret' = ReturnedNone
                 /\ pc' = "done"
                 /\ UNCHANGED locals
    /\ UNCHANGED <<env, reported, taskStatus, calls, printed>>

\* One iteration of "for task in pending_conversion_tasks": the list iterator
\* yields the element at its index and advances; the body checks the task and
\* removes it from the list being iterated when it has completed.
ls_check_task ==
    /\ pc = "ls_for_tasks"
    /\ locals.it < Len(locals.pending_conversion_tasks)
    /\ NumCalls("get_license_conversion_task") < MaxPolls
    /\ LET task == locals.pending_conversion_tasks[locals.it + 1]
           reqs == get_license_conversion_task(task[1], task[2])
       IN /\ calls' = calls \o Issued(reqs)
          /\ IF RaisesWithin(reqs)
             THEN /\ ret' = Raised /\ pc' = "done"
                  /\ locals' = [locals EXCEPT !.it = @ + 1]
                  /\ UNCHANGED taskStatus
             ELSE \E status \in Statuses :
                  /\ taskStatus' = [taskStatus EXCEPT ![task[2]] = Append(@, status)]
                  /\ locals' = [locals EXCEPT
                        !.it = @ + 1,
                        !.pending_conversion_tasks =
                            IF get_license_conversion_task_status(status) = TRUE
                            THEN Remove(@, task) ELSE @]
                  /\ UNCHANGED <<pc, ret>>
    /\ UNCHANGED <<env, reported, printed>>

----------------------------------------------------------------------------
(* user_subscriptions_onboard_identity_provider_operations.py: onboard       *)
(* The file names its client variable with hyphens and writes null for None; *)
(* the model follows the statements as they are meant to execute.            *)

OnboardDirectory == "d-9267ba49a1"
OnboardProduct == "VISUAL_STUDIO_PROFESSIONAL"

ProviderStatuses == {"REGISTERING", "REGISTERED", "REGISTRATION_FAILED"}

IdentityProviderSummaries ==
    [DirectoryId : {OnboardDirectory, "d-0000000000"},
     Product : {OnboardProduct},
     Status : ProviderStatuses]

\* The answers the service may give to list_identity_providers
ListIdentityProvidersResponses ==
    {[IdentityProviderSummaries |-> l] : l \in SeqsUpTo(IdentityProviderSummaries, MaxProviders)}

Init_ob ==
    /\ prog = "onboard"
    /\ pc = "ob_register"
    /\ svcMode = "byToken"
    /\ pages = <<>>
    /\ failAt \in 0..MaxFail
    /\ taskStatus = <<>>
    /\ reported = {}
    /\ calls = <<>>
    /\ locals = [response |-> <<>>]
    /\ ret = Pending
    /\ printed = <<>>

ob_register_identity_provider ==
    /\ pc = "ob_register"
    /\ calls' = Append(calls, [op |-> "register_identity_provider", NextToken |-> None,
                               DirectoryId |-> OnboardDirectory, Product |-> OnboardProduct])
    /\ IF Raises
       THEN /\ ret' = Raised /\ pc' = "done"
       ELSE /\ pc' = "ob_poll" /\ UNCHANGED ret
    /\ UNCHANGED <<env, reported, taskStatus, locals, printed>>

\* if response['IdentityProviderSummaries'][0]['Status'] == 'REGISTERED': break
ob_registered(response) == response.IdentityProviderSummaries[1].Status = "REGISTERED"

\* The statuses a list_identity_providers response reports for the identity
\* provider that onboard() registered.
ob_statuses_of_registered(response) ==
    {response.IdentityProviderSummaries[i].Status :
        i \in {k \in 1..Len(response.IdentityProviderSummaries) :
                  /\ response.IdentityProviderSummaries[k].DirectoryId = OnboardDirectory
                  /\ response.IdentityProviderSummaries[k].Product = OnboardProduct}}

\* One iteration of the while loop.
ob_list_identity_providers ==
    /\ pc = "ob_poll"
    /\ NumCalls("list_identity_providers") < MaxPolls
    /\ calls' = Append(calls, [op |-> "list_identity_providers", NextToken |-> None,
                               MaxResults |-> 10])
    /\ IF Raises
       THEN /\ ret' = Raised /\ pc' = "done" /\ UNCHANGED <<locals, reported>>
       ELSE \E response \in ListIdentityProvidersResponses :
            /\ locals' = [response |-> response]
            /\ reported' = reported \cup ob_statuses_of_registered(response)
            /\ IF response.IdentityProviderSummaries = <<>>
               THEN /\ ret' = Raised /\ pc' = "done"       \* IndexError
               ELSE /\ pc' = IF ob_registered(response) THEN "ob_start" ELSE "ob_poll"
                    /\ UNCHANGED ret
    /\ UNCHANGED <<env, taskStatus, printed>>

ob_start_product_subscription ==
    /\ pc = "ob_start"
    /\ calls' = Append(calls, [op |-> "start_product_subscription", NextToken |-> None,
                               Domain |-> "onpremises.local",
                               DirectoryId |-> OnboardDirectory,
                               Product |-> OnboardProduct, Username |-> "username"])
    /\ IF Raises
       THEN /\ ret' = Raised /\ pc' = "done"
       ELSE /\ pc' = "ob_list" /\ UNCHANGED ret
    /\ UNCHANGED <<env, reported, taskStatus, locals, printed>>

ob_list_product_subscriptions ==
    /\ pc = "ob_list"
    /\ calls' = Append(calls, [op |-> "list_product_subscriptions", NextToken |-> None,
                               DirectoryId |-> OnboardDirectory,
                               MaxResults |-> 100, Product |-> OnboardProduct])
    /\ ret' = IF Raises THEN Raised ELSE ReturnedNone
    /\ pc' = "done"
    /\ UNCHANGED <<env, reported, taskStatus, locals, printed>>

----------------------------------------------------------------------------
(* manage_user_subscriptions.py: the single-call wrappers *)

\* The default of the optional domain argument (falsy).
NoDomain == ""

SampleIdentityProvider == [ActiveDirectoryIdentityProvider |-> [DirectoryId |-> "d-1234567890"]]

\* request_params of start_product_subscription and stop_product_subscription
subscription_request_params(username, identity_provider, product, domain) ==
    [IdentityProvider |-> identity_provider, Product |-> product, Username |-> username]
    @@ (IF domain # NoDomain THEN [Domain |-> domain] ELSE <<>>)

\* request_params of associate_user and disassociate_user
association_request_params(username, identity_provider, instance_id, domain) ==
    [IdentityProvider |-> identity_provider, InstanceId |-> instance_id, Username |-> username]
    @@ (IF domain # NoDomain THEN [Domain |-> domain] ELSE <<>>)

\* try: response = client.<operation>(**request_params); return response
\* except Exception: return None
wrapper_result_uncaught(raises, response) ==
    IF raises THEN Raised ELSE Returned(response)

wrapper_result(raises, response) ==
    IF raises THEN ReturnedNone ELSE Returned(response)

Wrappers == {"start_product_subscription", "stop_product_subscription",
             "associate_user", "disassociate_user"}

WrapperResponses ==
    { [Summary |-> [Username |-> "testuser", Status |-> st]] :
        st \in {"PENDING", "SUBSCRIBED", "ASSOCIATED"} }

Init_wrapper ==
    /\ prog \in Wrappers
    /\ pc = "wrapper_call"
    /\ svcMode = "scripted"
    /\ pages \in {<<r>> : r \in WrapperResponses}
    /\ failAt \in 0..1
    /\ taskStatus = <<>>
    /\ reported = {}
    /\ calls = <<>>
    /\ \E domain \in {NoDomain, "onpremises.local"} :
          locals = [username |-> "testuser", identity_provider |-> SampleIdentityProvider,
                    product |-> "VISUAL_STUDIO_PROFESSIONAL",
                    instance_id |-> "i-1234567890abcdef0", domain |-> domain]
    /\ ret = Pending
    /\ printed = <<>>

WrapperCall(op, params) ==
    /\ pc = "wrapper_call"
    /\ prog = op
    /\ calls' = Append(calls, [op |-> op, NextToken |-> None, params |-> params])
    /\ ret' = wrapper_result(Raises, pages[1])
    /\ pc' = "done"
    /\ UNCHANGED <<env, reported, taskStatus, locals, printed>>

start_product_subscription ==
    WrapperCall("start_product_subscription",
        subscription_request_params(locals.username, locals.identity_provider,
                                    locals.product, locals.domain))

stop_product_subscription ==
    WrapperCall("stop_product_subscription",
        subscription_request_params(locals.username, locals.identity_provider,
                                    locals.product, locals.domain))

associate_user ==
    WrapperCall("associate_user",
        association_request_params(locals.username, locals.identity_provider,
                                   locals.instance_id, locals.domain))

disassociate_user ==
    WrapperCall("disassociate_user",
        association_request_params(locals.username, locals.identity_provider,
                                   locals.instance_id, locals.domain))

----------------------------------------------------------------------------
(* managed_entitlements_sample.py: main *)

\* The remote calls of main, in program order.
me_sequence ==
    << "get_caller_identity", "create_license", "get_license", "checkout_license",
       "extend_license_consumption", "check_in_license", "delete_license" >>

\* Where main continues after the call at position k: no call of main is
\* inside a try block, so an exception ends the run.
me_continue_swallowed(k, raises) ==
    IF k < Len(me_sequence) THEN me_sequence[k + 1] ELSE "done"

me_continue(k, raises) ==
    IF raises THEN "done"
    ELSE IF k < Len(me_sequence) THEN me_sequence[k + 1] ELSE "done"

Init_me ==
    /\ prog = "managed_entitlements_sample.main"
    /\ pc = me_sequence[1]
    /\ svcMode = "scripted"
    /\ pages \in {<<[LicenseArn |-> l], [LicenseConsumptionToken |-> t]>> :
                    l \in {"license-1", "license-2"}, t \in {"token-1", "token-2"}}
    /\ failAt \in 0..Len(me_sequence)
    /\ taskStatus = <<>>
    /\ reported = {}
    /\ calls = <<>>
    /\ locals = [license |-> <<>>, checkout_response |-> <<>>]
    /\ ret = Pending
    /\ printed = <<>>

me_call(k, arg, newlocals) ==
    /\ pc = me_sequence[k]
    /\ prog = "managed_entitlements_sample.main"
    /\ calls' = Append(calls, [op |-> me_sequence[k], NextToken |-> None, arg |-> arg])
    /\ pc' = me_continue(k, Raises)
    /\ locals' = IF Raises THEN locals ELSE newlocals
    /\ ret' = IF Raises THEN Raised
              ELSE IF k = Len(me_sequence) THEN ReturnedNone ELSE ret
    /\ UNCHANGED <<env, reported, taskStatus, printed>>

me_get_caller_identity == me_call(1, "", locals)

me_create_license ==
    me_call(2, "TestLicense1", [locals EXCEPT !.license = pages[1]])

me_get_license == me_call(3, locals.license.LicenseArn, locals)

me_checkout_license ==
    me_call(4, "TestProductSKU1", [locals EXCEPT !.checkout_response = pages[2]])

me_extend_license_consumption ==
    me_call(5, locals.checkout_response.LicenseConsumptionToken, locals)

me_check_in_license ==
    me_call(6, locals.checkout_response.LicenseConsumptionToken, locals)

me_delete_license == me_call(7, locals.license.LicenseArn, locals)

----------------------------------------------------------------------------
(* cross_account_ou_setup.py *)

\* Customer inputs and module constants
ou_arn == <<"arn", "organizations", "ou">>
ami_arn == <<"arn", "ec2", "image">>
license_configuration_name == "license-configuration-for-ou"

\* Python's None in a variable that otherwise holds an ARN
NoArn == <<>>

\* next_token = '' before the first list_license_configurations request
EmptyToken == -1

ExistingShareArn == <<"arn", "ram", "resource-share", "existing">>
CreatedShareArn == <<"arn", "ram", "resource-share", "created">>
CreatedLicenseConfigurationArn == <<"arn", "license-manager", "license-configuration", "created">>

\* The license configurations page p lists, named names[1], names[2], ...
LicenseConfigurationList(p, names) ==
    [j \in 1..Len(names) |->
        [Name |-> names[j],
         LicenseConfigurationArn |-> <<"arn", "license-manager", "license-configuration",
                                       ToString(p), ToString(j)>>]]

\* Listings of up to MaxLcPages pages of up to maxItems license configurations
LicenseConfigurationPageSeqs(maxItems) ==
    PageSeqsOf("LicenseConfigurations",
               [p \in 1..MaxLcPages |->
                   {[has |-> TRUE, xs |-> LicenseConfigurationList(p, names)] :
                       names \in SeqsUpTo({license_configuration_name,
                                           "another-license-configuration"}, maxItems)}],
               MaxLcPages)

\* A page of a listing the service answers at the time of the request: the
\* listing has at most MaxPages pages, page n carries the token n + 1.
ListedPage(tokenKey, listKey, items, more, n) ==
    (IF more /\ n < MaxPages THEN (tokenKey :> (n + 1)) ELSE <<>>) @@ (listKey :> items)

ou_locals(s3_bucket_arn) ==
    [s3_bucket_arn |-> s3_bucket_arn,
     settings |-> <<>>,
     resource_share_arn |-> NoArn,
     license_configuration_arn |-> NoArn,
     next_token |-> EmptyToken,
     contains_resource |-> FALSE]

Init_ou ==
    /\ prog = "cross_account_ou_setup.main"
    /\ pc = "ou_settings"
    /\ svcMode = "byToken"
    /\ pages \in LicenseConfigurationPageSeqs(1)
    /\ failAt \in 0..MaxFail
    /\ taskStatus = <<>>
    /\ reported = {}
    /\ calls = <<>>
    /\ \E s3_bucket_arn \in {"", "arn:aws:s3:::bucket"} : locals = ou_locals(s3_bucket_arn)
    /\ ret = Pending
    /\ printed = <<>>

Init_carlc ==
    /\ prog = "create_and_return_license_configuration"
    /\ pc = "ou_list_license_configurations"
    /\ svcMode = "byToken"
    /\ pages \in LicenseConfigurationPageSeqs(MaxItems)
    /\ failAt \in 0..MaxLcPages
    /\ taskStatus = <<>>
    /\ reported = {}
    /\ calls = <<>>
    /\ locals = ou_locals("")
    /\ ret = Pending
    /\ printed = <<>>

\* if ...['EnableIntegration'] is False or ...['EnableCrossAccountsDiscovery'] is False
ou_onboarding_incomplete_both(settings) ==
    /\ settings.OrganizationConfiguration.EnableIntegration = FALSE
    /\ settings.EnableCrossAccountsDiscovery = FALSE

ou_onboarding_incomplete(settings) ==
    \/ settings.OrganizationConfiguration.EnableIntegration = FALSE
    \/ settings.EnableCrossAccountsDiscovery = FALSE

\* enable_organization_integration_and_cross_account_discovery, up to the
\* update request
ou_get_service_settings ==
    /\ pc = "ou_settings"
    /\ calls' = Append(calls, Req("get_service_settings", None))
    /\ IF Raises
       THEN ret' = Raised /\ pc' = "done" /\ UNCHANGED locals
       ELSE \E response \in [OrganizationConfiguration : [EnableIntegration : BOOLEAN],
                               EnableCrossAccountsDiscovery : BOOLEAN] :
            /\ locals' = [locals EXCEPT !.settings = response]
            /\ IF ou_onboarding_incomplete(response)
               THEN (IF locals.s3_bucket_arn = ""
                     THEN ret' = Raised /\ pc' = "done"     \* raise Exception('S3 bucket must be provided ...')
                     ELSE pc' = "ou_update_service_settings" /\ UNCHANGED ret)
               ELSE pc' = "ou_get_resource_shares" /\ UNCHANGED ret
    /\ UNCHANGED <<env, reported, taskStatus, printed>>

ou_update_service_settings ==
    /\ pc = "ou_update_service_settings"
    /\ calls' = Append(calls, [op |-> "update_service_settings", NextToken |-> None,
                               S3BucketArn |-> locals.s3_bucket_arn,
                               OrganizationConfiguration |-> [EnableIntegration |-> TRUE],
                               EnableCrossAccountsDiscovery |-> TRUE])
    /\ IF Raises
       THEN ret' = Raised /\ pc' = "done"
       ELSE pc' = "ou_get_resource_shares" /\ UNCHANGED ret
    /\ UNCHANGED <<env, reported, taskStatus, locals, printed>>

\* create_and_return_resource_share, up to the create request
ou_get_resource_shares ==
    /\ pc = "ou_get_resource_shares"
    /\ calls' = Append(calls, [op |-> "get_resource_shares", NextToken |-> None,
                               name |-> "license-manager-resource-share-for-ou"])
    /\ IF Raises
       THEN ret' = Raised /\ pc' = "done" /\ UNCHANGED locals
       ELSE \E response \in {[resourceShares |-> <<>>],
                               [resourceShares |-> <<[resourceShareArn |-> ExistingShareArn]>>]} :
            IF Len(response.resourceShares) = 0
            THEN /\ pc' = "ou_create_resource_share"
                 /\ UNCHANGED <<locals, ret>>
            ELSE /\ locals' = [locals EXCEPT
                                  !.resource_share_arn = response.resourceShares[1].resourceShareArn]
                 /\ pc' = "ou_list_principals"
                 /\ UNCHANGED ret
    /\ UNCHANGED <<env, reported, taskStatus, printed>>

ou_create_resource_share ==
    /\ pc = "ou_create_resource_share"
    /\ calls' = Append(calls, [op |-> "create_resource_share", NextToken |-> None,
                               name |-> "license-manager-resource-share-for-ou"])
    /\ IF Raises
       THEN ret' = Raised /\ pc' = "done" /\ UNCHANGED locals
       ELSE /\ locals' = [locals EXCEPT !.resource_share_arn = CreatedShareArn]
            /\ pc' = "ou_list_principals"
            /\ UNCHANGED ret
    /\ UNCHANGED <<env, reported, taskStatus, printed>>

\* associate_resource_share_with_ou, up to the associate request
ou_list_principals ==
    /\ pc = "ou_list_principals"
    /\ calls' = Append(calls, [op |-> "list_principals", NextToken |-> None,
                               resourceShareArns |-> <<locals.resource_share_arn>>])
    /\ IF Raises
       THEN ret' = Raised /\ pc' = "done"
       ELSE \E principals \in ListsUpTo({[id |-> ou_arn], [id |-> <<"arn", "other">>]}, MaxItems) :
            \* for principal in ...['principals']: if principal['id'] == ou_arn
            /\ pc' = IF \E i \in 1..Len(principals) : principals[i].id = ou_arn
                     THEN "ou_list_license_configurations"
                     ELSE "ou_associate_principal"
            /\ UNCHANGED ret
    /\ UNCHANGED <<env, reported, taskStatus, locals, printed>>

ou_associate_principal ==
    /\ pc = "ou_associate_principal"
    /\ calls' = Append(calls, [op |-> "associate_resource_share", NextToken |-> None,
                               resourceShareArn |-> locals.resource_share_arn,
                               principals |-> <<ou_arn>>])
    /\ IF Raises
       THEN ret' = Raised /\ pc' = "done"
       ELSE pc' = "ou_list_license_configurations" /\ UNCHANGED ret
    /\ UNCHANGED <<env, reported, taskStatus, locals, printed>>

\* license_configuration_arn after the for loop over one page: the loop
\* breaks at the first license configuration of the wanted name.
ou_find_license_configuration_last(license_configuration_arn, configurations) ==
    LET matches == {j \in 1..Len(configurations) :
                       configurations[j].Name = license_configuration_name}
    IN  IF matches = {} THEN license_configuration_arn
        ELSE configurations[CHOOSE j \in matches : \A k \in matches : k <= j].LicenseConfigurationArn

ou_find_license_configuration(license_configuration_arn, configurations) ==
    LET matches == {j \in 1..Len(configurations) :
                       configurations[j].Name = license_configuration_name}
    IN  IF matches = {} THEN license_configuration_arn
        ELSE configurations[CHOOSE j \in matches : \A k \in matches : j <= k].LicenseConfigurationArn

\* create_and_return_license_configuration returns arn: to its caller main,
\* or as the outcome of the run when the function runs alone.
ou_return_license_configuration(arn) ==
    /\ locals' = [locals EXCEPT !.license_configuration_arn = arn,
                                !.next_token = None,
                                !.contains_resource = FALSE]
    /\ IF prog = "create_and_return_license_configuration"
       THEN ret' = Returned(arn) /\ pc' = "done"
       ELSE pc' = "ou_list_resources" /\ UNCHANGED ret

\* One iteration of the while loop of create_and_return_license_configuration.
ou_list_license_configurations ==
    /\ pc = "ou_list_license_configurations"
    /\ calls' = Append(calls, Req("list_license_configurations", locals.next_token))
    /\ IF Raises
       THEN ret' = Raised /\ pc' = "done" /\ UNCHANGED locals
       ELSE LET response == pages[IF locals.next_token = EmptyToken THEN 1
                                  ELSE locals.next_token]
                license_configuration_arn ==
                    ou_find_license_configuration(locals.license_configuration_arn,
                                                  response.LicenseConfigurations)
                next_token == IF "NextToken" \in DOMAIN response
                              THEN response.NextToken ELSE None
            IN  IF license_configuration_arn # NoArn \/ next_token = None
                THEN IF license_configuration_arn = NoArn
                     THEN /\ locals' = [locals EXCEPT !.next_token = next_token]
                          /\ pc' = "ou_create_license_configuration"
                          /\ UNCHANGED ret
                     ELSE ou_return_license_configuration(license_configuration_arn)
                ELSE /\ locals' = [locals EXCEPT !.next_token = next_token]
                     /\ UNCHANGED <<pc, ret>>
    /\ UNCHANGED <<env, reported, taskStatus, printed>>

ou_create_license_configuration ==
    /\ pc = "ou_create_license_configuration"
    /\ calls' = Append(calls, [op |-> "create_license_configuration", NextToken |-> None,
                               Name |-> license_configuration_name,
                               LicenseCountingType |-> "Instance",
                               LicenseCount |-> 10,
                               LicenseCountHardLimit |-> TRUE])
    /\ IF Raises
       THEN ret' = Raised /\ pc' = "done" /\ UNCHANGED locals
       ELSE ou_return_license_configuration(CreatedLicenseConfigurationArn)
    /\ UNCHANGED <<env, reported, taskStatus, printed>>

\* The associate_resource_share request of
\* associate_resource_share_with_license_configuration
ou_share_association_request_swapped(resource_share_arn, license_configuration_arn) ==
    [op |-> "associate_resource_share", NextToken |-> None,
     resourceShareArn |-> license_configuration_arn,
     resourceArns |-> <<resource_share_arn>>]

ou_share_association_request(resource_share_arn, license_configuration_arn) ==
    [op |-> "associate_resource_share", NextToken |-> None,
     resourceShareArn |-> resource_share_arn,
     resourceArns |-> <<license_configuration_arn>>]

\* One iteration of the while loop of
\* associate_resource_share_with_license_configuration.
ou_list_resources ==
    /\ pc = "ou_list_resources"
    /\ calls' = Append(calls, [op |-> "list_resources", NextToken |-> locals.next_token,
                               resourceShareArns |-> <<locals.resource_share_arn>>])
    /\ IF Raises
       THEN ret' = Raised /\ pc' = "done" /\ UNCHANGED locals
       ELSE \E response \in
                {ListedPage("nextToken", "resources", items, more,
                            NumCalls("list_resources") + 1) :
                    items \in {<<>>, <<[arn |-> <<"arn", "other">>]>>,
                               <<[arn |-> locals.license_configuration_arn]>>},
                    more \in BOOLEAN} :
            LET contains_resource ==
                    \E i \in 1..Len(response.resources) :
                        response.resources[i].arn = locals.license_configuration_arn
                next_token == IF "nextToken" \in DOMAIN response
                              THEN response.nextToken ELSE None
            IN  /\ IF contains_resource \/ next_token = None
                   THEN /\ pc' = IF contains_resource
                                 THEN "ou_list_associations"
                                 ELSE "ou_associate_license_configuration"
                        \* contains_resource and next_token as
                        \* associate_ami_with_license_configuration initialises them
                        /\ locals' = [locals EXCEPT !.contains_resource = FALSE,
                                                    !.next_token = None]
                   ELSE /\ locals' = [locals EXCEPT !.next_token = next_token]
                        /\ UNCHANGED pc
                /\ UNCHANGED ret
    /\ UNCHANGED <<env, reported, taskStatus, printed>>

ou_associate_license_configuration ==
    /\ pc = "ou_associate_license_configuration"
    /\ calls' = Append(calls, ou_share_association_request(locals.resource_share_arn,
                                                           locals.license_configuration_arn))
    /\ IF Raises
       THEN ret' = Raised /\ pc' = "done"
       ELSE pc' = "ou_list_associations" /\ UNCHANGED ret
    /\ UNCHANGED <<env, reported, taskStatus, locals, printed>>

\* One iteration of the while loop of associate_ami_with_license_configuration.
ou_list_associations ==
    /\ pc = "ou_list_associations"
    /\ calls' = Append(calls, [op |-> "list_associations_for_license_configuration",
                               NextToken |-> locals.next_token,
                               LicenseConfigurationArn |-> locals.license_configuration_arn])
    /\ IF Raises
       THEN ret' = Raised /\ pc' = "done" /\ UNCHANGED locals
       ELSE \E response \in
                {ListedPage("NextToken", "LicenseConfigurationAssociations", items, more,
                            NumCalls("list_associations_for_license_configuration") + 1) :
                    items \in {<<>>, <<[ResourceArn |-> <<"arn", "other">>]>>,
                               <<[ResourceArn |-> ami_arn]>>},
                    more \in BOOLEAN} :
            LET contains_resource ==
                    \E i \in 1..Len(response.LicenseConfigurationAssociations) :
                        ami_arn = response.LicenseConfigurationAssociations[i].ResourceArn
                next_token == IF "NextToken" \in DOMAIN response
                              THEN response.NextToken ELSE None
            IN  IF contains_resource \/ next_token = None
                THEN /\ locals' = [locals EXCEPT !.contains_resource = contains_resource,
                                                 !.next_token = next_token]
                     /\ IF contains_resource
                        THEN ret' = ReturnedNone /\ pc' = "done"
                        ELSE pc' = "ou_associate_ami" /\ UNCHANGED ret
                ELSE /\ locals' = [locals EXCEPT !.next_token = next_token]
                     /\ UNCHANGED <<pc, ret>>
    /\ UNCHANGED <<env, reported, taskStatus, printed>>

ou_associate_ami ==
    /\ pc = "ou_associate_ami"
    /\ calls' = Append(calls, [op |-> "update_license_specifications_for_resource",
                               NextToken |-> None,
                               ResourceArn |-> ami_arn,
                               AddLicenseSpecifications |->
                                   <<[LicenseConfigurationArn |-> locals.license_configuration_arn,
                                      AmiAssociationScope |-> "cross-account"]>>])
    /\ IF Raises
       THEN ret' = Raised /\ pc' = "done"
       ELSE ret' = ReturnedNone /\ pc' = "done"
    /\ UNCHANGED <<env, reported, taskStatus, locals, printed>>

----------------------------------------------------------------------------
(* update_license_specifications_for_all_ec2_instances_based_on_tags.py *)

\* Reservation r of page p with n instances; every instance is listed once.
Reservation(p, r, n) ==
    [Instances |-> [j \in 1..n |-> [InstanceId |-> <<"i", p, r, j>>]]]

\* Listings of up to MaxEc2Pages pages; a page carries up to MaxReservations
\* reservations of n instances each, or no Reservations key.
ReservationPageSeqs ==
    PageSeqsOf("Reservations",
               [p \in 1..MaxEc2Pages |->
                   {[has |-> FALSE, xs |-> <<>>]} \cup
                   {[has |-> TRUE, xs |-> [r \in 1..k |-> Reservation(p, r, n)]] :
                       k \in 0..MaxReservations, n \in 0..MaxItems}],
               MaxEc2Pages)

Init_ec2 ==
    /\ prog = "update_license_specifications_for_all_ec2_tagged_instances"
    /\ pc = "ec2_start"
    /\ svcMode = "byToken"
    /\ pages \in ReservationPageSeqs
    /\ failAt \in 0..MaxEc2Pages
    /\ taskStatus = <<>>
    /\ reported = {}
    /\ calls = <<>>
    /\ locals = [response |-> <<>>, instances |-> <<>>, idx |-> 0]
    /\ ret = Pending
    /\ printed = <<>>

\* resource_arn = "arn:aws:ec2:{}:{}:instance/{}".format(...)
ec2_resource_arn(resource) == Arn("062544142987", <<"instance", resource.InstanceId>>)

\* The head of the while loop's body for a response just received: the
\* instances the for loop will go through, or IndexError.
ec2_enter_page(response) ==
    IF "Reservations" \in DOMAIN response
    THEN IF response.Reservations = <<>>
         THEN /\ ret' = Raised /\ pc' = "done"        \* reservations[0]: IndexError
              /\ locals' = [locals EXCEPT !.response = response]
         ELSE /\ locals' = [response |-> response,
                            \* instances = reservations[0]['Instances']
                            instances |-> response.Reservations[1].Instances,
                            idx |-> 0]
              /\ pc' = "ec2_for"
              /\ UNCHANGED ret
    ELSE /\ locals' = [response |-> response, instances |-> <<>>, idx |-> 0]
         /\ pc' = "ec2_for"
         /\ UNCHANGED ret

ec2_describe_instances ==
    /\ pc = "ec2_start"
    /\ calls' = Append(calls, [op |-> "describe_instances", NextToken |-> None,
                               FilterName |-> "tag:testsample"])
    /\ IF Raises
       THEN /\ ret' = Raised /\ pc' = "done" /\ UNCHANGED locals
       ELSE ec2_enter_page(Serve("describe_instances", None))
    /\ UNCHANGED <<env, reported, taskStatus, printed>>

ec2_specification_call(op, resource_arn) ==
    IF op = "update_license_specifications_for_resource"
    THEN [op |-> op, NextToken |-> None, ResourceArn |-> resource_arn,
          \* main passes the list ['LicenseConfigurationArn'] as the ARN
          AddLicenseSpecifications |->
              <<[LicenseConfigurationArn |-> <<"LicenseConfigurationArn">>]>>]
    ELSE [op |-> op, NextToken |-> None, ResourceArn |-> resource_arn]

ec2_update_license_specifications ==
    /\ pc = "ec2_for"
    /\ locals.idx < Len(locals.instances)
    /\ calls' = Append(calls, ec2_specification_call(
                          "update_license_specifications_for_resource",
                          ec2_resource_arn(locals.instances[locals.idx + 1])))
    /\ IF Raises
       THEN /\ ret' = Raised /\ pc' = "done"
       ELSE /\ pc' = "ec2_list_specs" /\ UNCHANGED ret
    /\ UNCHANGED <<env, reported, taskStatus, locals, printed>>

ec2_list_license_specifications ==
    /\ pc = "ec2_list_specs"
    /\ calls' = Append(calls, ec2_specification_call(
                          "list_license_specifications_for_resource",
                          ec2_resource_arn(locals.instances[locals.idx + 1])))
    /\ IF Raises
       THEN /\ ret' = Raised /\ pc' = "done" /\ UNCHANGED locals
       ELSE /\ pc' = "ec2_for"
            /\ locals' = [locals EXCEPT !.idx = @ + 1]
            /\ UNCHANGED ret
    /\ UNCHANGED <<env, reported, taskStatus, printed>>

\* After the for loop: the next page when the response has NextToken,
\* otherwise return response.
ec2_next_page ==
    /\ pc = "ec2_for"
    /\ locals.idx >= Len(locals.instances)
    /\ IF "NextToken" \in DOMAIN locals.response
       THEN /\ calls' = Append(calls, [op |-> "describe_instances",
                                       NextToken |-> locals.response.NextToken,
                                       FilterName |-> "tag:samplekey"])
            /\ IF Raises
               THEN /\ ret' = Raised /\ pc' = "done" /\ UNCHANGED locals
               ELSE ec2_enter_page(Serve("describe_instances", locals.response.NextToken))
       ELSE /\ ret' = Returned(locals.response)
            /\ pc' = "done"
            /\ UNCHANGED <<calls, locals>>
    /\ UNCHANGED <<env, reported, taskStatus, printed>>

----------------------------------------------------------------------------
(* manage_user_subscriptions.py: the demonstrations *)

create_identity_provider(directory_id, directory_type) ==
    [ActiveDirectoryIdentityProvider |->
        [DirectoryId |-> directory_id, ActiveDirectoryType |-> directory_type]]

Demonstrations == {"demonstrate_visual_studio_association",
                   "demonstrate_visual_studio_disassociation",
                   "demonstrate_subscription_stop"}

\* demonstrate_visual_studio_subscription() followed by
\* demonstrate_visual_studio_association(): the workflow the script documents
Workflow == "start_subscription_then_associate"

\* username of demonstrate_visual_studio_subscription
SubscriptionUsername == "testuser1"

\* username of the association, disassociation and stop demonstrations
DemoUsername == "testuser1@example.com"

DemoIdentityProvider == create_identity_provider("d-1234567890", "AWS_MANAGED")

\* The listing a demonstration checks its prerequisite on, the status it
\* requires there, and the request it then issues
demo_check_op(p) ==
    IF p = "demonstrate_visual_studio_disassociation"
    THEN "list_user_associations" ELSE "list_product_subscriptions"

demo_list_key(op) ==
    IF op = "list_user_associations" THEN "InstanceUserSummaries" ELSE "ProductUserSummaries"

demo_required_status(p) ==
    IF p = "demonstrate_visual_studio_disassociation" THEN "ASSOCIATED" ELSE "SUBSCRIBED"

demo_mutate_op(p) ==
    CASE p = "demonstrate_visual_studio_disassociation" -> "disassociate_user"
      [] p = "demonstrate_subscription_stop" -> "stop_product_subscription"
      [] OTHER -> "associate_user"

\* The listing a demonstration shows the status from after its request
demo_status_op(p) ==
    IF p = "demonstrate_subscription_stop"
    THEN "list_product_subscriptions" ELSE "list_user_associations"

\* request_params of list_product_subscriptions and list_user_associations
listing_request_params(op) ==
    IF op = "list_user_associations"
    THEN [IdentityProvider |-> DemoIdentityProvider, InstanceId |-> "i-1234567890abcdef0",
          MaxResults |-> 25]
    ELSE [IdentityProvider |-> DemoIdentityProvider, Product |-> "VISUAL_STUDIO_PROFESSIONAL",
          MaxResults |-> 25]

demo_mutate_params(p) ==
    IF p = "demonstrate_subscription_stop"
    THEN subscription_request_params(DemoUsername, DemoIdentityProvider, "VISUAL_STUDIO_PROFESSIONAL", "example.com")
    ELSE association_request_params(DemoUsername, DemoIdentityProvider, "i-1234567890abcdef0",
                                    "example.com")

UserStatuses(op) ==
    IF op = "list_user_associations"
    THEN {"ASSOCIATING", "ASSOCIATED"}
    ELSE {"PENDING", "SUBSCRIBED"}

\* The answers of a listing that the demonstration's own requests do not
\* determine: no list key, or up to MaxItems user summaries.
DemoListings(op) ==
    {<<>>} \cup
    {(demo_list_key(op) :> l) :
        l \in SeqsUpTo([Username : {DemoUsername, SubscriptionUsername},
                        Status : UserStatuses(op)], MaxItems)}

\* What the service may answer to a listing request of the running program.
\* The subscriptions it lists in the workflow: the user of every
\* start_product_subscription request that did not raise, under the name and
\* domain of the request, in a status of the service's choice.
ListingAnswers(op) ==
    IF prog = Workflow /\ op = "list_product_subscriptions"
    THEN LET started == {i \in 1..Len(calls) :
                            calls[i].op = "start_product_subscription" /\ failAt # i}
         IN  {[ProductUserSummaries |-> l] :
                 l \in {s \in SeqsUpTo([Username : {SubscriptionUsername},
                                        Domain : {"example.com"},
                                        Status : UserStatuses("list_product_subscriptions")],
                                       1) :
                          Len(s) = Cardinality(started)}}
    ELSE DemoListings(op)

\* The answer to a request that starts or stops a subscription or an association
MutationResponse(op, params) ==
    [Summary |-> [Username |-> params.Username, Status |-> "PENDING"]]

\* if listing and key in listing: for user_summary in listing[key]:
\*     if user_summary.get('Username') == username and
\*        user_summary.get('Status') == status: ... break
demo_prerequisite_met_any_status(listing, key, username, status) ==
    /\ listing.kind = "value"
    /\ key \in DOMAIN listing.val
    /\ \E i \in 1..Len(listing.val[key]) :
          listing.val[key][i].Username = username

demo_prerequisite_met(listing, key, username, status) ==
    /\ listing.kind = "value"
    /\ key \in DOMAIN listing.val
    /\ \E i \in 1..Len(listing.val[key]) :
          /\ listing.val[key][i].Username = username
          /\ listing.val[key][i].Status = status

\* The demonstration whose statements a program is executing
demo_of(p) == IF p = Workflow THEN "demonstrate_visual_studio_association" ELSE p

Init_demo ==
    /\ prog \in Demonstrations
    /\ pc = "demo_check"
    /\ svcMode = "scripted"
    /\ pages = <<>>
    /\ failAt \in 0..MaxFail
    /\ taskStatus = <<>>
    /\ reported = {}
    /\ calls = <<>>
    /\ locals = [prerequisite |-> Pending, result |-> Pending, status |-> Pending]
    /\ ret = Pending
    /\ printed = <<>>

Init_workflow ==
    /\ prog = Workflow
    /\ pc = "vs_start"
    /\ svcMode = "scripted"
    /\ pages = <<>>
    /\ failAt \in 0..MaxFail
    /\ taskStatus = <<>>
    /\ reported = {}
    /\ calls = <<>>
    /\ locals = [prerequisite |-> Pending, result |-> Pending, status |-> Pending]
    /\ ret = Pending
    /\ printed = <<>>

\* demonstrate_visual_studio_subscription: start the subscription; return
\* False when the wrapper returned None.
vs_start_product_subscription ==
    /\ pc = "vs_start"
    /\ LET params == subscription_request_params(SubscriptionUsername, DemoIdentityProvider,
                                                 "VISUAL_STUDIO_PROFESSIONAL", "example.com")
           subscription_result ==
               wrapper_result(Raises, MutationResponse("start_product_subscription", params))
       IN  /\ calls' = Append(calls, [op |-> "start_product_subscription",
                                      NextToken |-> None, params |-> params])
           /\ locals' = [locals EXCEPT !.result = subscription_result]
           /\ IF subscription_result.kind = "value"
              THEN pc' = "vs_status" /\ UNCHANGED ret
              ELSE ret' = Returned(FALSE) /\ pc' = "done"
    /\ UNCHANGED <<env, reported, taskStatus, printed>>

\* demonstrate_visual_studio_subscription: show the status and return True;
\* the workflow goes on with demonstrate_visual_studio_association.
vs_list_product_subscriptions ==
    /\ pc = "vs_status"
    /\ calls' = Append(calls, [op |-> "list_product_subscriptions", NextToken |-> None,
                               params |-> listing_request_params("list_product_subscriptions")])
    /\ \E response \in ListingAnswers("list_product_subscriptions") :
          locals' = [locals EXCEPT !.status = wrapper_result(Raises, response)]
    /\ pc' = "demo_check"
    /\ UNCHANGED <<env, reported, taskStatus, ret, printed>>

\* The prerequisite check of a demonstration: return False unless the
\* listing has the user in the required status.
demo_check ==
    /\ pc = "demo_check"
    /\ LET op == demo_check_op(demo_of(prog))
       IN  /\ calls' = Append(calls, [op |-> op, NextToken |-> None,
                                      params |-> listing_request_params(op)])
           /\ \E response \in ListingAnswers(op) :
                 LET listing == wrapper_result(Raises, response)
                 IN  /\ locals' = [locals EXCEPT !.prerequisite = listing]
                     /\ IF demo_prerequisite_met(listing, demo_list_key(op), DemoUsername,
                                                 demo_required_status(demo_of(prog)))
                        THEN pc' = "demo_mutate" /\ UNCHANGED ret
                        ELSE ret' = Returned(FALSE) /\ pc' = "done"
    /\ UNCHANGED <<env, reported, taskStatus, printed>>

\* The request of a demonstration: return False when the wrapper returned None.
demo_mutate ==
    /\ pc = "demo_mutate"
    /\ LET op == demo_mutate_op(demo_of(prog))
           params == demo_mutate_params(demo_of(prog))
           result == wrapper_result(Raises, MutationResponse(op, params))
       IN  /\ calls' = Append(calls, [op |-> op, NextToken |-> None, params |-> params])
           /\ locals' = [locals EXCEPT !.result = result]
           /\ IF result.kind = "value"
              THEN pc' = "demo_status" /\ UNCHANGED ret
              ELSE ret' = Returned(FALSE) /\ pc' = "done"
    /\ UNCHANGED <<env, reported, taskStatus, printed>>

\* The status listing of a demonstration, then return True.
demo_status ==
    /\ pc = "demo_status"
    /\ LET op == demo_status_op(demo_of(prog))
       IN  /\ calls' = Append(calls, [op |-> op, NextToken |-> None,
                                      params |-> listing_request_params(op)])
           /\ \E response \in ListingAnswers(op) :
                 locals' = [locals EXCEPT !.status = wrapper_result(Raises, response)]
    /\ ret' = Returned(TRUE)
    /\ pc' = "done"
    /\ UNCHANGED <<env, reported, taskStatus, printed>>

----------------------------------------------------------------------------
(* manage_license_server_endpoints.py: demonstrate_license_server_endpoint_lifecycle *)

\* get_identity_provider_arn_for_rds: the ARN of the first registered
\* REMOTE_DESKTOP_SERVICES provider of the listing, None without one and
\* when the listing raised.
get_identity_provider_arn_for_rds(raises, response) ==
    IF raises \/ "IdentityProviderSummaries" \notin DOMAIN response
    THEN NoArn
    ELSE LET l == response.IdentityProviderSummaries
             found == {i \in 1..Len(l) : /\ l[i].Product = "REMOTE_DESKTOP_SERVICES"
                                         /\ l[i].Status = "REGISTERED"}
         IN  IF found = {} THEN NoArn
             ELSE l[CHOOSE i \in found : \A k \in found : i <= k].IdentityProviderArn

Init_lifecycle ==
    /\ prog = "demonstrate_license_server_endpoint_lifecycle"
    /\ pc = "lifecycle_start"
    /\ svcMode = "scripted"
    /\ pages = <<>>
    /\ failAt \in 0..MaxFail
    /\ taskStatus = <<>>
    /\ reported = {}
    /\ calls = <<>>
    /\ locals = [identity_provider_arn |-> NoArn]
    /\ ret = Pending
    /\ printed = <<>>

\* identity_provider_arn = get_identity_provider_arn_for_rds();
\* if not identity_provider_arn: return
lifecycle_get_identity_provider_arn ==
    /\ pc = "lifecycle_start"
    /\ calls' = Append(calls, Req("list_identity_providers", None))
    /\ \E response \in
          {<<>>} \cup
          {[IdentityProviderSummaries |-> l] :
              l \in SeqsUpTo([Product : {"REMOTE_DESKTOP_SERVICES",
                                         "VISUAL_STUDIO_PROFESSIONAL"},
                              Status : {"REGISTERED", "REGISTERING"},
                              IdentityProviderArn : {<<"arn", "identity-provider">>}],
                             MaxProviders)} :
          LET identity_provider_arn == get_identity_provider_arn_for_rds(Raises, response)
          IN  /\ locals' = [identity_provider_arn |-> identity_provider_arn]
              /\ IF identity_provider_arn = NoArn
                 THEN ret' = ReturnedNone /\ pc' = "done"
                 ELSE pc' = "lifecycle_list" /\ UNCHANGED ret
    /\ UNCHANGED <<env, reported, taskStatus, printed>>

\* Step 2: list_license_server_endpoints(); the wrapper catches exceptions.
lifecycle_list_license_server_endpoints ==
    /\ pc = "lifecycle_list"
    /\ calls' = Append(calls, Req("list_license_server_endpoints", None))
    /\ pc' = "lifecycle_delete"
    /\ UNCHANGED <<env, reported, taskStatus, locals, ret, printed>>

\* Step 3: delete_license_server_endpoint(example_endpoint_arn, 'RDS_SAL');
\* the wrapper catches exceptions.
lifecycle_delete_license_server_endpoint ==
    /\ pc = "lifecycle_delete"
    /\ calls' = Append(calls, [op |-> "delete_license_server_endpoint", NextToken |-> None,
                               LicenseServerEndpointArn |->
                                   <<"arn", "aws", "license-manager-user-subscriptions",
                                     "us-east-1", "123456789012",
                                     "license-server-endpoint/lse-12345678-1234-1234-1234-123456789012">>,
                               ServerType |-> "RDS_SAL"])
    /\ ret' = ReturnedNone
    /\ pc' = "done"
    /\ UNCHANGED <<env, reported, taskStatus, locals, printed>>

----------------------------------------------------------------------------
Init ==
    \/ Init_lse
    \/ Init_ulsr
    \/ Init_dlsua
    \/ Init_lipp
    \/ Init_gpsm
    \/ Init_llsi
    \/ Init_li
    \/ Init_ls
    \/ Init_ob
    \/ Init_wrapper
    \/ Init_me
    \/ Init_ou
    \/ Init_carlc
    \/ Init_ec2
    \/ Init_demo
    \/ Init_workflow
    \/ Init_lifecycle

Next ==
    \/ list_license_server_endpoints_paginated
    \/ generate_license_server_endpoints_report
    \/ ulsr_list_resource_inventory
    \/ ulsr_update_license_specifications
    \/ ulsr_list_license_specifications
    \/ ulsr_next_page
    \/ dlsua_describe_alarms
    \/ dlsua_loop
    \/ lipp_list_identity_providers
    \/ lipp_loop
    \/ gpsm_list_product_subscriptions
    \/ gpsm_loop
    \/ llsi_list_instances
    \/ llsi_loop
    \/ li_list_instances
    \/ li_loop
    \/ ls_list_resource_inventory
    \/ ls_create_task
    \/ ls_next_page
    \/ ls_while
    \/ ls_check_task
    \/ ob_register_identity_provider
    \/ ob_list_identity_providers
    \/ ob_start_product_subscription
    \/ ob_list_product_subscriptions
    \/ start_product_subscription
    \/ stop_product_subscription
    \/ associate_user
    \/ disassociate_user
    \/ me_get_caller_identity
    \/ me_create_license
    \/ me_get_license
    \/ me_checkout_license
    \/ me_extend_license_consumption
    \/ me_check_in_license
    \/ me_delete_license
    \/ ou_get_service_settings
    \/ ou_update_service_settings
    \/ ou_get_resource_shares
    \/ ou_create_resource_share
    \/ ou_list_principals
    \/ ou_associate_principal
    \/ ou_list_license_configurations
    \/ ou_create_license_configuration
    \/ ou_list_resources
    \/ ou_associate_license_configuration
    \/ ou_list_associations
    \/ ou_associate_ami
    \/ ec2_describe_instances
    \/ ec2_update_license_specifications
    \/ ec2_list_license_specifications
    \/ ec2_next_page
    \/ vs_start_product_subscription
    \/ vs_list_product_subscriptions
    \/ demo_check
    \/ demo_mutate
    \/ demo_status
    \/ lifecycle_get_identity_provider_arn
    \/ lifecycle_list_license_server_endpoints
    \/ lifecycle_delete_license_server_endpoint

Spec == Init /\ [][Next]_vars

----------------------------------------------------------------------------
(* Properties *)

\* Some remote call of the run has raised.
SomeCallRaised == failAt \in 1..Len(calls)

\* The list operation a paginating function repeats.
ListOp ==
    CASE prog = "update_license_specifications_for_all_resources" -> "list_resource_inventory"
      [] prog = "describe_linux_subscriptions_usage_alarms" -> "describe_alarms"
      [] prog = "list_identity_providers_paginated" -> "list_identity_providers"
      [] prog = "get_product_subscription_metrics" -> "list_product_subscriptions"
      [] prog = "generate_license_server_endpoints_report" -> "list_license_server_endpoints"
      [] prog = "list_linux_subscription_instances" -> "list_linux_subscription_instances"
      [] prog = "list_instances" -> "list_instances"
      [] OTHER -> "list_resource_inventory"

ListCalls == SelectSeq(calls, LAMBDA c : c.op = ListOp)

\* The page the service answered the i-th list request with.
ResponseToList(i) ==
    IF svcMode = "scripted"
    THEN pages[IF i <= Len(pages) THEN i ELSE Len(pages)]
    ELSE pages[IF ListCalls[i].NextToken = None THEN 1 ELSE ListCalls[i].NextToken]

PaginationLoops ==
    {"update_license_specifications_for_all_resources",
     "describe_linux_subscriptions_usage_alarms",
     "list_identity_providers_paginated",
     "get_product_subscription_metrics"}

\* C1: in the four pagination loops, when no call raises, every list response
\* but the last one received contains NextToken, the loop has ended only when
\* the last response lacks it, and then exactly N list requests were issued
\* for the N responses the service has to give.
C1_PaginationStopsAtMissingToken ==
    (prog \in PaginationLoops /\ ~SomeCallRaised) =>
        /\ \A i \in 1..(Len(ListCalls) - 1) : "NextToken" \in DOMAIN ResponseToList(i)
        /\ pc = "done" =>
              /\ Len(ListCalls) >= 1
              /\ "NextToken" \notin DOMAIN ResponseToList(Len(ListCalls))
              /\ Len(ListCalls) = Len(pages)

C1_Witness ==
    /\ prog = "describe_linux_subscriptions_usage_alarms"
    /\ pc = "done"
    /\ ~SomeCallRaised
    /\ Len(pages) >= 3
    /\ Len(ListCalls) = Len(pages)

\* The LicenseServerEndpoints lists of all pages, concatenated in page order.
AllPagesEndpoints ==
    Concat([i \in 1..Len(pages) |->
              IF "LicenseServerEndpoints" \in DOMAIN pages[i]
              THEN pages[i].LicenseServerEndpoints ELSE <<>>])

\* C2: list_license_server_endpoints_paginated, when no call raises, returns
\* after exactly K requests for a result set of K pages, and returns the
\* concatenation in page order of the pages' LicenseServerEndpoints lists.
C2_AggregatesAllPages ==
    (prog = "generate_license_server_endpoints_report" /\ ~SomeCallRaised
        /\ pc # "lse_loop") =>
        /\ Len(calls) = Len(pages)
        /\ ret = Returned(AllPagesEndpoints)

C2_Witness ==
    /\ prog = "generate_license_server_endpoints_report"
    /\ pc = "lse_report"
    /\ ~SomeCallRaised
    /\ Len(pages) = 2
    /\ Len(calls) = 2
    /\ ret.val = EndpointList(1, 1) \o EndpointList(2, 2)

\* C3: every request of list_linux_subscription_instances after the first
\* passes the token of the preceding response, so that a token-addressed
\* service of K pages is asked for each page once, K requests in all.
C3_FollowsContinuationToken ==
    (prog = "list_linux_subscription_instances" /\ svcMode = "byToken") =>
        /\ \A i \in 2..Len(calls) :
              /\ "NextToken" \in DOMAIN ResponseToList(i - 1)
              /\ calls[i].NextToken = ResponseToList(i - 1).NextToken
        /\ Len(calls) <= Len(pages)

TerminalTaskStatuses == {"SUCCEEDED", "FAILED"}

\* Position of the first terminal status of a status sequence (0: none).
FirstTerminal(statuses) ==
    IF \E i \in 1..Len(statuses) : statuses[i] \in TerminalTaskStatuses
    THEN CHOOSE i \in 1..Len(statuses) :
            /\ statuses[i] \in TerminalTaskStatuses
            /\ \A j \in 1..(i - 1) : statuses[j] \notin TerminalTaskStatuses
    ELSE 0

\* Number of get_license_conversion_task calls issued for a task.
GetCalls(t) ==
    Cardinality({i \in 1..Len(calls) :
                    /\ calls[i].op = "get_license_conversion_task"
                    /\ calls[i].LicenseConversionTaskId = t})

CreateCalls ==
    SelectSeq(calls, LAMBDA c : c.op = "create_license_conversion_task_for_resource")

\* The conversion function that created task t.
TaskPhase(t) ==
    IF CreateCalls[t].SourceLicenseContext = "RunInstances:0800" THEN "BYOL" ELSE "LI"

\* The conversion function that created task t has returned.
TaskFunctionReturned(t) ==
    \/ TaskPhase(t) = "BYOL" /\ locals.phase = "LI"
    \/ pc = "done" /\ ret = ReturnedNone

InPendingList(t) ==
    \E k \in 1..Len(locals.pending_conversion_tasks) :
        locals.pending_conversion_tasks[k][2] = t

\* C4: a conversion task is checked once per status the service answers for
\* it, no status follows its first SUCCEEDED or FAILED, it stays in the list
\* of pending tasks exactly as long as it has no terminal status, and when
\* its conversion function has returned the number of checks equals the
\* position of its first terminal status (three for PENDING, PENDING,
\* SUCCEEDED).
C4_ChecksUntilFirstTerminal ==
    (prog = "license_switching_sample.main") =>
        \A t \in 1..Len(taskStatus) :
            /\ ~SomeCallRaised => GetCalls(t) = Len(taskStatus[t])
            /\ FirstTerminal(taskStatus[t]) \in {0, Len(taskStatus[t])}
            /\ (TaskPhase(t) = locals.phase /\ ret = Pending) =>
                  (InPendingList(t) <=> FirstTerminal(taskStatus[t]) = 0)
            /\ TaskFunctionReturned(t) =>
                  /\ FirstTerminal(taskStatus[t]) > 0
                  /\ GetCalls(t) = FirstTerminal(taskStatus[t])
            /\ (taskStatus[t] = <<"PENDING", "PENDING", "SUCCEEDED">> /\ ~SomeCallRaised) =>
                  GetCalls(t) = 3

C4_Witness ==
    /\ prog = "license_switching_sample.main"
    /\ locals.phase = "LI"
    /\ pc = "ls_start"
    /\ ~SomeCallRaised
    /\ Len(taskStatus) = 1
    /\ taskStatus[1] = <<"PENDING", "PENDING", "SUCCEEDED">>
    /\ GetCalls(1) = 3

ProviderTerminalStatuses == {"REGISTERED", "REGISTRATION_FAILED"}

\* C5: the polling loop of onboard() does not go on once a response has
\* reported a terminal status, REGISTERED or a failure, for the provider.
C5_PollingEndsOnTerminalStatus ==
    (prog = "onboard" /\ pc = "ob_poll" /\ locals.response # <<>>) =>
        locals.response.IdentityProviderSummaries[1].Status \notin ProviderTerminalStatuses

\* C6: convert_BYOL_to_license_included_for_all_resources has returned, and
\* main has gone on to convert_LI_to_BYOL_for_all_resources, only when every
\* task the former created has been observed SUCCEEDED or FAILED.
C6_ReturnsOnlyAfterAllTerminal ==
    (prog = "license_switching_sample.main" /\ locals.phase = "LI") =>
        \A t \in 1..Len(taskStatus) :
            TaskPhase(t) = "BYOL" =>
                /\ taskStatus[t] # <<>>
                /\ taskStatus[t][Len(taskStatus[t])] \in TerminalTaskStatuses

C6_Witness ==
    /\ prog = "license_switching_sample.main"
    /\ locals.phase = "LI"
    /\ pc = "ls_for"
    /\ Len(taskStatus) >= 2
    /\ TaskPhase(2) = "BYOL"
    /\ taskStatus[1] = <<"PENDING", "FAILED">>
    /\ taskStatus[2] = <<"PENDING", "SUCCEEDED">>

\* The entry lists the given product among its Products.
HasProduct(summary, product) ==
    /\ "Products" \in DOMAIN summary
    /\ \E k \in 1..Len(summary.Products) : summary.Products[k] = product

\* F consists of exactly the entries of L that list the product, in L's order.
ExactlyTheMatches(F, L, product) ==
    \E f \in [1..Len(F) -> 1..Len(L)] :
        /\ \A a, b \in 1..Len(F) : a < b => f[a] < f[b]
        /\ \A a \in 1..Len(F) : F[a] = L[f[a]]
        /\ {f[a] : a \in 1..Len(F)} = {i \in 1..Len(L) : HasProduct(L[i], product)}

\* C7: list_instances called with a product prints, for every page, the page
\* with InstanceSummaries narrowed to exactly the entries listing the product,
\* in order; the response itself stays as served, decides whether another
\* page is requested, and the last one is returned.
C7_FilterNarrowsPrintedPageOnly ==
    (prog = "list_instances" /\ locals.product # NoProduct /\ ~SomeCallRaised) =>
        /\ \A i \in 1..Len(printed) :
              LET served == ResponseToList(i)
              IN  /\ DOMAIN printed[i] = DOMAIN served
                  /\ "NextToken" \in DOMAIN served => printed[i].NextToken = served.NextToken
                  /\ "InstanceSummaries" \in DOMAIN served =>
                        ExactlyTheMatches(printed[i].InstanceSummaries,
                                          served.InstanceSummaries, locals.product)
        /\ pc = "li_loop" => locals.response = ResponseToList(Len(calls))
        /\ pc = "done" =>
              /\ ret = Returned(pages[Len(pages)])
              /\ Len(calls) = Len(pages)
              /\ Len(printed) = Len(pages)

C7_Witness ==
    /\ prog = "list_instances"
    /\ locals.product = "VISUAL_STUDIO_PROFESSIONAL"
    /\ pc = "done"
    /\ ~SomeCallRaised
    /\ Len(pages) = 2
    /\ "InstanceSummaries" \in DOMAIN pages[1]
    /\ Len(pages[1].InstanceSummaries) = 2
    /\ Len(printed[1].InstanceSummaries) = 1
    /\ "InstanceSummaries" \in DOMAIN pages[2]
    /\ Len(pages[2].InstanceSummaries) = 1
    /\ Len(printed[2].InstanceSummaries) = 0

\* C8: each of the four wrappers issues exactly one remote call, its own
\* operation; it returns None when the call raises and the service response
\* unchanged otherwise, and never lets the exception out.
C8_WrapperOneCallNoneOnError ==
    (prog \in Wrappers /\ pc = "done") =>
        /\ Len(calls) = 1
        /\ calls[1].op = prog
        /\ ret = IF failAt = 1 THEN ReturnedNone ELSE Returned(pages[1])

C8_Witness ==
    /\ prog = "associate_user"
    /\ pc = "done"
    /\ failAt = 1
    /\ ret = ReturnedNone

\* C9: in managed_entitlements_sample.main the call that raises is the last
\* call issued: the run ends there, a created license is not deleted and a
\* checked-out token is not checked in.
C9_ExceptionEndsRun ==
    (prog = "managed_entitlements_sample.main" /\ SomeCallRaised) =>
        /\ Len(calls) = failAt
        /\ pc = "done"
        /\ ret = Raised
        /\ \A i \in 1..Len(calls) : calls[i].op = me_sequence[i]
        /\ failAt < 7 => NumCalls("delete_license") = 0
        /\ failAt < 6 => NumCalls("check_in_license") = 0

C9_Witness ==
    /\ prog = "managed_entitlements_sample.main"
    /\ failAt = 5
    /\ pc = "done"
    /\ NumCalls("create_license") = 1
    /\ NumCalls("checkout_license") = 1
    /\ NumCalls("extend_license_consumption") = 1

\* C10: when the request for a page raises, list_license_server_endpoints_paginated
\* returns the empty list whatever it had accumulated, issues no further
\* request, and the report says that no endpoints were found.
C10_NoPartialResultOnFailure ==
    (prog = "generate_license_server_endpoints_report" /\ SomeCallRaised) =>
        /\ Len(calls) = failAt
        /\ pc # "lse_loop"
        /\ ret = Returned(<<>>)
        /\ pc = "done" => printed = <<"No license server endpoints found.">>

C10_Witness ==
    /\ prog = "generate_license_server_endpoints_report"
    /\ pc = "done"
    /\ failAt = 2
    /\ Len(calls) = 2
    /\ locals.all_endpoints # <<>>
    /\ printed = <<"No license server endpoints found.">>

----------------------------------------------------------------------------
(* cross_account_ou_setup.py *)

OuProgs == {"cross_account_ou_setup.main", "create_and_return_license_configuration"}

\* The documented step (1 to 5) a request of main belongs to.
DocumentedStep(call) ==
    CASE call.op \in {"get_service_settings", "update_service_settings"} -> 1
      [] call.op \in {"get_resource_shares", "create_resource_share", "list_principals"} -> 2
      [] call.op = "associate_resource_share" ->
            IF "principals" \in DOMAIN call THEN 2 ELSE 4
      [] call.op \in {"list_license_configurations", "create_license_configuration"} -> 3
      [] call.op = "list_resources" -> 4
      [] OTHER -> 5

\* The positions <<page, index>> of the license configurations named
\* license_configuration_name in the service's listing.
LcMatches ==
    {m \in (1..Len(pages)) \X (1..MaxItems + 1) :
        /\ m[2] <= Len(pages[m[1]].LicenseConfigurations)
        /\ pages[m[1]].LicenseConfigurations[m[2]].Name = license_configuration_name}

FirstLcMatch ==
    CHOOSE m \in LcMatches :
        \A n \in LcMatches : m[1] < n[1] \/ (m[1] = n[1] /\ m[2] <= n[2])

\* The ARNs the service handed out in the create-or-find steps
ObtainedShareArn ==
    IF NumCalls("create_resource_share") > 0 THEN CreatedShareArn ELSE ExistingShareArn

ObtainedLcArn ==
    IF NumCalls("create_license_configuration") > 0
    THEN CreatedLicenseConfigurationArn
    ELSE pages[FirstLcMatch[1]].LicenseConfigurations[FirstLcMatch[2]].LicenseConfigurationArn

IsShareAssociation(call) ==
    call.op = "associate_resource_share" /\ "resourceArns" \in DOMAIN call

IsAmiAssociation(call) == call.op = "update_license_specifications_for_resource"

\* C11: main issues its requests in the documented order of the five steps;
\* the association of the license configuration with the resource share comes
\* after both ARNs were obtained from the create-or-find steps and carries
\* exactly those ARNs, and so does the association with the AMI.
C11_StepsInOrderWithObtainedArns ==
    prog = "cross_account_ou_setup.main" =>
        /\ \A i, j \in 1..Len(calls) :
              i < j => DocumentedStep(calls[i]) <= DocumentedStep(calls[j])
        /\ \A i \in 1..Len(calls) :
              IsShareAssociation(calls[i]) =>
                  /\ \E j \in 1..(i - 1) :
                        calls[j].op \in {"get_resource_shares", "create_resource_share"}
                  /\ \E k \in 1..(i - 1) :
                        calls[k].op \in {"list_license_configurations",
                                         "create_license_configuration"}
                  /\ calls[i].resourceShareArn = ObtainedShareArn
                  /\ calls[i].resourceArns = <<ObtainedLcArn>>
        /\ \A i \in 1..Len(calls) :
              IsAmiAssociation(calls[i]) =>
                  /\ calls[i].ResourceArn = ami_arn
                  /\ Len(calls[i].AddLicenseSpecifications) = 1
                  /\ calls[i].AddLicenseSpecifications[1].LicenseConfigurationArn = ObtainedLcArn
        /\ ret = ReturnedNone =>
              \A op \in {"get_service_settings", "get_resource_shares", "list_principals",
                         "list_license_configurations", "list_resources",
                         "list_associations_for_license_configuration"} :
                  NumCalls(op) >= 1

\* A complete run that created the share and found the license configuration
\* on the second page, and issued both associations.
C11_Witness ==
    /\ prog = "cross_account_ou_setup.main"
    /\ ret = ReturnedNone
    /\ NumCalls("create_resource_share") = 1
    /\ NumCalls("list_license_configurations") = 2
    /\ NumCalls("create_license_configuration") = 0
    /\ \E i \in 1..Len(calls) : IsShareAssociation(calls[i])
    /\ \E i \in 1..Len(calls) : IsAmiAssociation(calls[i])

\* The list_license_configurations requests, in order
LcListCalls == SelectSeq(calls, LAMBDA c : c.op = "list_license_configurations")

\* create_and_return_license_configuration has returned.
LcReturned == locals.license_configuration_arn # NoArn

\* C17: create_and_return_license_configuration creates the license
\* configuration if and only if no page of the listing has one named
\* license_configuration_name; when one has, it returns the ARN of the first
\* match in listing order, creates nothing and requests no page after the
\* page of the match.
C17_CreateIfAbsentOverAllPages ==
    prog \in OuProgs =>
        /\ \A i \in 1..Len(LcListCalls) :
              LcListCalls[i].NextToken = IF i = 1 THEN EmptyToken ELSE i
        /\ NumCalls("create_license_configuration") <= 1
        /\ (NumCalls("create_license_configuration") = 1 \/ pc = "ou_create_license_configuration")
              => /\ LcMatches = {}
                 /\ Len(LcListCalls) = Len(pages)
        /\ LcMatches # {} => Len(LcListCalls) <= FirstLcMatch[1]
        /\ LcReturned =>
              IF LcMatches = {}
              THEN /\ NumCalls("create_license_configuration") = 1
                   /\ locals.license_configuration_arn = CreatedLicenseConfigurationArn
              ELSE /\ NumCalls("create_license_configuration") = 0
                   /\ Len(LcListCalls) = FirstLcMatch[1]
                   /\ locals.license_configuration_arn =
                         pages[FirstLcMatch[1]].LicenseConfigurations[FirstLcMatch[2]]
                             .LicenseConfigurationArn
        /\ (prog = "create_and_return_license_configuration" /\ ret.kind = "value")
              => LcReturned /\ ret.val = locals.license_configuration_arn

\* The function returned the first of two matches of page 1 and did not
\* request page 2.
C17_Witness ==
    /\ prog = "create_and_return_license_configuration"
    /\ ret.kind = "value"
    /\ Len(pages) = 2
    /\ Len(LcListCalls) = 1
    /\ Cardinality({m \in LcMatches : m[1] = 1}) = 2
    /\ ret.val = pages[1].LicenseConfigurations[1].LicenseConfigurationArn

\* C18: enable_organization_integration_and_cross_account_discovery issues
\* update_service_settings if and only if the fetched settings have
\* EnableIntegration False or EnableCrossAccountsDiscovery False and
\* s3_bucket_arn is not empty; with incomplete onboarding and an empty
\* s3_bucket_arn it raises before any update, and main issues no later step.
C18_UpdatesSettingsOnlyWhenIncomplete ==
    prog = "cross_account_ou_setup.main" =>
        LET fetched == DOMAIN locals.settings # {}
            incomplete ==
                \/ locals.settings.OrganizationConfiguration.EnableIntegration = FALSE
                \/ locals.settings.EnableCrossAccountsDiscovery = FALSE
        IN  /\ NumCalls("update_service_settings") <= 1
            /\ NumCalls("update_service_settings") = 1 =>
                  /\ fetched /\ incomplete
                  /\ locals.s3_bucket_arn # ""
                  /\ calls[2].op = "update_service_settings"
                  /\ calls[2].S3BucketArn = locals.s3_bucket_arn
            /\ (fetched /\ incomplete /\ locals.s3_bucket_arn # ""
                    /\ pc # "ou_update_service_settings")
                  => NumCalls("update_service_settings") = 1
            /\ (fetched /\ incomplete /\ locals.s3_bucket_arn = "")
                  => /\ ret = Raised
                     /\ pc = "done"
                     /\ Len(calls) = 1

\* Integration is enabled, discovery is not, and no bucket is given: the run
\* ended with the exception after the single get_service_settings request.
C18_Witness ==
    /\ prog = "cross_account_ou_setup.main"
    /\ failAt = 0
    /\ ret = Raised
    /\ locals.s3_bucket_arn = ""
    /\ DOMAIN locals.settings # {}
    /\ locals.settings.OrganizationConfiguration.EnableIntegration = TRUE
    /\ locals.settings.EnableCrossAccountsDiscovery = FALSE
    /\ Len(calls) = 1

----------------------------------------------------------------------------
(* update_license_specifications_for_all_ec2_instances_based_on_tags.py *)

\* The instances of every reservation of every page of describe_instances
AllTaggedInstances ==
    UNION {UNION {{pages[p].Reservations[r].Instances[j] :
                      j \in 1..Len(pages[p].Reservations[r].Instances)} :
                  r \in 1..Len(pages[p].Reservations)} :
           p \in {q \in 1..Len(pages) : "Reservations" \in DOMAIN pages[q]}}

UpdateCallsFor(resource_arn) ==
    {i \in 1..Len(calls) :
        /\ calls[i].op = "update_license_specifications_for_resource"
        /\ calls[i].ResourceArn = resource_arn}

\* C12: update_license_specifications_for_all_ec2_tagged_instances issues one
\* update_license_specifications_for_resource request for the ARN of every
\* instance of every reservation of every page of describe_instances, and
\* completes without error when a page has no reservation.
C12_UpdatesEveryTaggedInstance ==
    prog = "update_license_specifications_for_all_ec2_tagged_instances" =>
        /\ failAt = 0 => ret # Raised
        /\ ret.kind = "value" =>
              \A resource \in AllTaggedInstances :
                  Cardinality(UpdateCallsFor(ec2_resource_arn(resource))) = 1

----------------------------------------------------------------------------
(* user_subscriptions_onboard_identity_provider_operations.py: onboard *)

\* C13: onboard() issues start_product_subscription only after some
\* list_identity_providers response has reported the status REGISTERED for
\* the identity provider it registered (OnboardDirectory, OnboardProduct),
\* whatever else the listing contains and in whatever order.
C13_StartsOnlyAfterOwnProviderRegistered ==
    prog = "onboard" =>
        (NumCalls("start_product_subscription") > 0 => "REGISTERED" \in reported)

----------------------------------------------------------------------------
(* manage_user_subscriptions.py: the demonstrations *)

\* The listing request, its list key, the status and the request each
\* demonstration is documented with
Documented(p) ==
    CASE p = "demonstrate_visual_studio_association" ->
            [list |-> "list_product_subscriptions", key |-> "ProductUserSummaries",
             status |-> "SUBSCRIBED", request |-> "associate_user"]
      [] p = "demonstrate_visual_studio_disassociation" ->
            [list |-> "list_user_associations", key |-> "InstanceUserSummaries",
             status |-> "ASSOCIATED", request |-> "disassociate_user"]
      [] p = "demonstrate_subscription_stop" ->
            [list |-> "list_product_subscriptions", key |-> "ProductUserSummaries",
             status |-> "SUBSCRIBED", request |-> "stop_product_subscription"]

\* The prerequisite listing succeeded and has an entry of the user in the status.
ListsUser(listing, key, username, status) ==
    /\ listing.kind = "value"
    /\ key \in DOMAIN listing.val
    /\ \E i \in 1..Len(listing.val[key]) :
          /\ listing.val[key][i].Username = username
          /\ listing.val[key][i].Status = status

\* C14: each of the association, disassociation and stop demonstrations
\* issues its associate_user, disassociate_user or stop_product_subscription
\* request only if the listing before it has an entry with the
\* demonstration's username in status SUBSCRIBED, ASSOCIATED or SUBSCRIBED
\* respectively; otherwise, also when the listing failed, it returns False
\* and does not issue the request.
C14_RequestOnlyWhenPrerequisiteListed ==
    prog \in Demonstrations =>
        LET d == Documented(prog)
            listed == ListsUser(locals.prerequisite, d.key, "testuser1@example.com", d.status)
        IN  /\ \A i \in 1..Len(calls) :
                  calls[i].op = d.request =>
                      /\ i = 2
                      /\ calls[1].op = d.list
                      /\ calls[i].params.Username = "testuser1@example.com"
                      /\ listed
            /\ (Len(calls) >= 1 /\ ~listed) =>
                  /\ ret = Returned(FALSE)
                  /\ Len(calls) = 1
                  /\ calls[1].op = d.list

\* The stop demonstration found its user SUBSCRIBED behind another entry,
\* stopped the subscription and returned True.
C14_Witness ==
    /\ prog = "demonstrate_subscription_stop"
    /\ ret = Returned(TRUE)
    /\ calls[2].op = "stop_product_subscription"
    /\ Len(locals.prerequisite.val.ProductUserSummaries) = 2
    /\ locals.prerequisite.val.ProductUserSummaries[1].Status = "PENDING"

\* C15: the documented workflow runs with the demonstrations as written:
\* once demonstrate_visual_studio_subscription has started the subscription
\* and the service lists that user's subscription as SUBSCRIBED,
\* demonstrate_visual_studio_association passes its prerequisite check and
\* issues associate_user.
C15_WorkflowReachesAssociation ==
    prog = Workflow =>
        ((/\ Len(calls) >= 3
          /\ calls[1].op = "start_product_subscription"
          /\ locals.result.kind = "value"
          /\ ListsUser(locals.prerequisite, "ProductUserSummaries",
                       calls[1].params.Username, "SUBSCRIBED"))
         => \/ pc = "demo_mutate"
            \/ \E i \in 1..Len(calls) : calls[i].op = "associate_user")

----------------------------------------------------------------------------
(* manage_license_server_endpoints.py: demonstrate_license_server_endpoint_lifecycle *)

\* C16: demonstrate_license_server_endpoint_lifecycle leaves the service's
\* state alone: it issues listing requests only, no
\* create_license_server_endpoint and no delete_license_server_endpoint.
C16_LifecycleOnlyLists ==
    prog = "demonstrate_license_server_endpoint_lifecycle" =>
        \A i \in 1..Len(calls) :
            calls[i].op \notin {"create_license_server_endpoint",
                                "delete_license_server_endpoint"}

----------------------------------------------------------------------------
(* update_license_specifications_for_resource.py *)

\* The resources page p of the inventory lists
InventoryOf(p) ==
    IF "ResourceInventoryList" \in DOMAIN pages[p]
    THEN pages[p].ResourceInventoryList ELSE <<>>

\* The requests one page gives rise to: the request for the page, then for
\* each of its resources in order an update and a listing of its specifications.
RequestsForPage(p) ==
    <<Req("list_resource_inventory", IF p = 1 THEN None ELSE pages[p - 1].NextToken)>>
    \o Concat([j \in 1..Len(InventoryOf(p)) |->
                 <<[op |-> "update_license_specifications_for_resource", NextToken |-> None,
                    ResourceArn |-> InventoryOf(p)[j].ResourceArn],
                   [op |-> "list_license_specifications_for_resource", NextToken |-> None,
                    ResourceArn |-> InventoryOf(p)[j].ResourceArn]>>])

AllInventoryRequests == Concat([p \in 1..Len(pages) |-> RequestsForPage(p)])

TotalResources ==
    Len(Concat([p \in 1..Len(pages) |-> InventoryOf(p)]))

\* C19: update_license_specifications_for_all_resources issues, for every
\* resource of every page of list_resource_inventory, one
\* update_license_specifications_for_resource request followed by one
\* list_license_specifications_for_resource request for the same ResourceArn,
\* finishes a page before it requests the next, and has issued as many
\* updates as the pages list resources when it returns.
C19_UpdateThenListForEveryResource ==
    prog = "update_license_specifications_for_all_resources" =>
        /\ Len(calls) <= Len(AllInventoryRequests)
        /\ calls = SubSeq(AllInventoryRequests, 1, Len(calls))
        /\ ret.kind = "value" =>
              /\ calls = AllInventoryRequests
              /\ NumCalls("update_license_specifications_for_resource") = TotalResources
              /\ NumCalls("list_license_specifications_for_resource") = TotalResources

\* A complete run over three pages, the second of which lists two resources.
C19_Witness ==
    /\ prog = "update_license_specifications_for_all_resources"
    /\ ret.kind = "value"
    /\ Len(pages) = 3
    /\ Len(InventoryOf(1)) = 1
    /\ Len(InventoryOf(2)) = 2
    /\ NumCalls("update_license_specifications_for_resource") >= 3

====
